---- MODULE Spec2Model ----
(***************************************************************************)
(* A model of the LSPS2 service handler (src/src/lsps2/service.rs): the    *)
(* per-channel JIT state machine, the per-peer registries, the fee         *)
(* apportionment and the handler's entry points.                           *)
(***************************************************************************)
EXTENDS Integers, Sequences, FiniteSets, TLC

(* ------------------------------ bounds -------------------------------- *)

\* protocol requests handled in one behaviour
MaxRequests == 2
\* HTLCs the channel manager intercepts in one behaviour
MaxHtlcs == 2
\* largest expected_outbound_amount_msat / payment_size_msat drawn
MaxAmount == 3
\* u64::MAX, scaled to the range of the checker's integers
U64Max == 2499999
\* longest HTLC list handed to calculate_amount_to_forward_per_htlc alone
MaxLen == 3

\* the identifiers of each kind, in the order the environment first names them
Peers == << "p1" >>
Scids == << 41, 42 >>
UserChannelIds == << 7, 8 >>
ChannelIds == << "X" >>
RequestIds == << "r1", "r2" >>
PaymentHashes == << "h1", "h2" >>

Range(f) == {f[x] : x \in DOMAIN f}

(* ----------------------------- utilities ------------------------------ *)

\* Option<T>: None is the empty sequence, Some(v) the one-element sequence
None == << >>
Some(v) == << v >>

Min(a, b) == IF a < b THEN a ELSE b
Max(a, b) == IF a > b THEN a ELSE b

\* u64::saturating_sub
saturating_sub(a, b) == IF a > b THEN a - b ELSE 0

\* HashMap::insert and HashMap::remove on a function with a partial domain
Insert(m, k, v) == [x \in DOMAIN m \cup {k} |-> IF x = k THEN v ELSE m[x]]
Remove(m, k) == [x \in DOMAIN m \ {k} |-> m[x]]
EmptyMap == [x \in {} |-> 0]

RECURSIVE SumAmounts(_)
SumAmounts(htlcs) ==
  IF htlcs = << >> THEN 0
  ELSE Head(htlcs).expected_outbound_amount_msat + SumAmounts(Tail(htlcs))

(* ------------------- wire constants (lsps2::msgs) --------------------- *)

LSPS2_GET_INFO_REQUEST_UNRECOGNIZED_OR_STALE_TOKEN_ERROR_CODE == 200
LSPS2_BUY_REQUEST_INVALID_OPENING_FEE_PARAMS_ERROR_CODE == 201
LSPS2_BUY_REQUEST_PAYMENT_SIZE_TOO_SMALL_ERROR_CODE == 202
LSPS2_BUY_REQUEST_PAYMENT_SIZE_TOO_LARGE_ERROR_CODE == 203

(* ------------------------ lsps2::utils (spec 4.4, 4.5) ----------------- *)

\* checked u64 arithmetic: None on overflow of the numerator
compute_opening_fee(payment_size_msat, min_fee_msat, proportional) ==
  IF proportional > 0 /\ payment_size_msat > (U64Max \div proportional)
    THEN None
  ELSE IF payment_size_msat * proportional > U64Max - 999999
    THEN None
  ELSE Some(Max((payment_size_msat * proportional + 999999) \div 1000000,
                min_fee_msat))

\* the promise is the HMAC under the LSP's secret and valid_until is ahead
is_valid_opening_fee_params(opening_fee_params) ==
  /\ opening_fee_params.promise = "lsp_secret"
  /\ opening_fee_params.valid_until = "future"

(* --------------------- lsps2::payment_queue (spec 4.3) ----------------- *)

\* a queue is a sequence of groups [payment_hash, htlcs], one per hash
RECURSIVE QueueTotal(_)
QueueTotal(q) ==
  IF q = << >> THEN 0 ELSE SumAmounts(Head(q).htlcs) + QueueTotal(Tail(q))

RECURSIVE QueueCount(_)
QueueCount(q) ==
  IF q = << >> THEN 0 ELSE Len(Head(q).htlcs) + QueueCount(Tail(q))

PaymentQueue_new == << >>

\* append to the group of the HTLC's hash, or open a new group at the tail
add_htlc(q, htlc) ==
  LET hit == {i \in 1..Len(q) : q[i].payment_hash = htlc.payment_hash}
      q2 == IF hit = {}
              THEN Append(q, [payment_hash |-> htlc.payment_hash,
                              htlcs |-> << htlc >>])
              ELSE [i \in 1..Len(q) |->
                      IF i \in hit
                        THEN [q[i] EXCEPT !.htlcs = Append(@, htlc)]
                        ELSE q[i]]
  IN [queue |-> q2, total |-> QueueTotal(q2), num |-> QueueCount(q2)]

\* remove and return the first group whose sum strictly exceeds the threshold
pop_greater_than_msat(q, amount_msat) ==
  LET hit == {i \in 1..Len(q) : SumAmounts(q[i].htlcs) > amount_msat}
  IN IF hit = {}
       THEN [found |-> FALSE, queue |-> q, htlcs |-> << >>]
       ELSE LET k == CHOOSE i \in hit : \A j \in hit : i <= j
            IN [found |-> TRUE,
                queue |-> [i \in 1..(Len(q) - 1) |->
                             IF i < k THEN q[i] ELSE q[i + 1]],
                htlcs |-> q[k].htlcs]

\* every remaining HTLC, groups in order, HTLCs within a group in order
RECURSIVE clear(_)
clear(q) == IF q = << >> THEN << >> ELSE Head(q).htlcs \o clear(Tail(q))

QueueIds(q) == {h.intercept_id : h \in {clear(q)[i] : i \in 1..Len(clear(q))}}

(* ------------------- calculate_amount_to_forward_per_htlc -------------- *)

\* the fee taken from htlcs[index] when fee_remaining is still to be taken
ActualFee(htlcs, total_fee_msat, total, index, fee_remaining_msat) ==
  LET proportional_fee_amt_msat ==
        (total_fee_msat * htlcs[index].expected_outbound_amount_msat) \div total
  IN Min(Min(fee_remaining_msat, proportional_fee_amt_msat),
         htlcs[index].expected_outbound_amount_msat)

RECURSIVE ForwardLoop(_, _, _, _, _)
ForwardLoop(htlcs, total_fee_msat, total, index, fee_remaining_msat) ==
  IF index > Len(htlcs) THEN << >>
  ELSE LET fee == ActualFee(htlcs, total_fee_msat, total, index,
                            fee_remaining_msat)
           left == fee_remaining_msat - fee
           actual_fee_amt_msat ==
             IF index = Len(htlcs) THEN fee + left ELSE fee
       IN << [intercept_id |-> htlcs[index].intercept_id,
              amount_to_forward_msat |->
                saturating_sub(htlcs[index].expected_outbound_amount_msat,
                               actual_fee_amt_msat)] >>
          \o ForwardLoop(htlcs, total_fee_msat, total, index + 1, left)

\* an apportionment that takes the whole fee from every HTLC
calculate_whole_fee_per_htlc(htlcs, total_fee_msat) ==
  [i \in 1..Len(htlcs) |->
     [intercept_id |-> htlcs[i].intercept_id,
      amount_to_forward_msat |->
        saturating_sub(htlcs[i].expected_outbound_amount_msat,
                       total_fee_msat)]]

calculate_amount_to_forward_per_htlc(htlcs, total_fee_msat) ==
  LET total_expected_outbound_msat == SumAmounts(htlcs)
  IN IF total_fee_msat > total_expected_outbound_msat
       THEN << >>
       ELSE ForwardLoop(htlcs, total_fee_msat, total_expected_outbound_msat,
                        1, total_fee_msat)

(* ---------------------- OutboundJITChannelState ------------------------ *)

\* PendingInitialPayment and PaymentForwarded carry no opening_fee_msat,
\* PaymentForwarded no queue
JITState(tag, payment_queue, opening_fee_msat) ==
  [tag |-> tag, payment_queue |-> payment_queue,
   opening_fee_msat |-> opening_fee_msat]

OutboundJITChannelState_new ==
  JITState("PendingInitialPayment", PaymentQueue_new, None)

\* an htlc_intercepted that takes any number of HTLCs in no-MPP mode
State_htlc_intercepted_any_number(state, opening_fee_params, payment_size_msat, htlc) ==
  IF state.tag = "PendingInitialPayment" THEN
    LET added == add_htlc(state.payment_queue, htlc)
        size == IF payment_size_msat # None THEN payment_size_msat[1]
                ELSE added.total
        fee == compute_opening_fee(size, opening_fee_params.min_fee_msat,
                                   opening_fee_params.proportional)
        queued == JITState("PendingInitialPayment", added.queue, None)
    IN IF \/ size < opening_fee_params.min_payment_size_msat
          \/ size > opening_fee_params.max_payment_size_msat
          \/ fee = None
         THEN [ok |-> FALSE, state |-> queued, open_channel_params |-> None,
               err |-> "payment size"]
       ELSE IF added.total >= size /\ saturating_sub(size, fee[1]) > 0
         THEN [ok |-> TRUE,
               state |-> JITState("PendingChannelOpen", added.queue, fee),
               open_channel_params |->
                 Some([opening_fee_msat |-> fee[1],
                       amt_to_forward_msat |-> saturating_sub(size, fee[1])]),
               err |-> ""]
       ELSE [ok |-> payment_size_msat # None, state |-> queued,
             open_channel_params |-> None, err |-> "too small"]
  ELSE [ok |-> FALSE, state |-> state, open_channel_params |-> None,
        err |-> "another state"]

\* an htlc_intercepted that takes HTLCs, and opens, in every state
State_htlc_intercepted_reopening(state, opening_fee_params, payment_size_msat, htlc) ==
  State_htlc_intercepted_any_number(
    JITState("PendingInitialPayment", state.payment_queue, None),
    opening_fee_params, payment_size_msat, htlc)

\* Result<(Self, Option<OpenChannelParams>), ChannelStateError>; on Err the
\* state keeps its variant, and the queue behind the Arc keeps the HTLC that
\* add_htlc pushed
State_htlc_intercepted(state, opening_fee_params, payment_size_msat, htlc) ==
  IF state.tag = "PendingInitialPayment" THEN
    LET added == add_htlc(state.payment_queue, htlc)
        total_expected_outbound_amount_msat == added.total
        num_htlcs == added.num
        mpp_mode == payment_size_msat # None
        expected_payment_size_msat ==
          IF mpp_mode THEN payment_size_msat[1]
          ELSE total_expected_outbound_amount_msat
        fee == compute_opening_fee(expected_payment_size_msat,
                                   opening_fee_params.min_fee_msat,
                                   opening_fee_params.proportional)
        queued == JITState("PendingInitialPayment", added.queue, None)
        Err(msg) == [ok |-> FALSE, state |-> queued,
                     open_channel_params |-> None, err |-> msg]
    IN IF ~mpp_mode /\ num_htlcs # 1 THEN Err("multiple HTLCs in no-MPP mode")
       ELSE IF \/ expected_payment_size_msat
                    < opening_fee_params.min_payment_size_msat
               \/ expected_payment_size_msat
                    > opening_fee_params.max_payment_size_msat
         THEN Err("payment size violates our limits")
       ELSE IF fee = None THEN Err("could not compute valid opening fee")
       ELSE LET opening_fee_msat == fee[1]
                amt_to_forward_msat ==
                  saturating_sub(expected_payment_size_msat, opening_fee_msat)
            IN IF /\ total_expected_outbound_amount_msat
                       >= expected_payment_size_msat
                  /\ amt_to_forward_msat > 0
                 THEN [ok |-> TRUE,
                       state |-> JITState("PendingChannelOpen", added.queue,
                                          Some(opening_fee_msat)),
                       open_channel_params |->
                         Some([opening_fee_msat |-> opening_fee_msat,
                               amt_to_forward_msat |-> amt_to_forward_msat]),
                       err |-> ""]
               ELSE IF mpp_mode
                 THEN [ok |-> TRUE, state |-> queued,
                       open_channel_params |-> None, err |-> ""]
               ELSE Err("intercepted HTLC is too small to pay opening fee")
  ELSE [ok |-> FALSE, state |-> state, open_channel_params |-> None,
        err |-> "intercepted HTLC when JIT channel was in another state"]

\* a channel_ready that does not look at the variant it is called in
State_channel_ready_in_any_state(state) ==
  LET fee == IF state.opening_fee_msat = None
               THEN 0 ELSE state.opening_fee_msat[1]
      popped == pop_greater_than_msat(state.payment_queue, fee)
  IN IF state.tag \in {"PendingInitialPayment", "PendingChannelOpen"}
          /\ popped.found
       THEN [ok |-> TRUE,
             state |-> JITState("PendingPaymentForward", popped.queue,
                                Some(fee)),
             fee_payment |-> [htlcs |-> popped.htlcs, opening_fee_msat |-> fee]]
       ELSE [ok |-> FALSE, state |-> state,
             fee_payment |-> [htlcs |-> << >>, opening_fee_msat |-> 0]]

\* a channel_ready that pops the paying group before it looks at the variant
State_channel_ready_popping_first(state) ==
  LET fee == IF state.opening_fee_msat = None
               THEN 0 ELSE state.opening_fee_msat[1]
      popped == pop_greater_than_msat(state.payment_queue, fee)
  IN IF state.tag = "PendingChannelOpen" /\ popped.found
       THEN [ok |-> TRUE,
             state |-> JITState("PendingPaymentForward", popped.queue,
                                state.opening_fee_msat),
             fee_payment |-> [htlcs |-> popped.htlcs, opening_fee_msat |-> fee]]
       ELSE [ok |-> FALSE, state |-> [state EXCEPT !.payment_queue = popped.queue],
             fee_payment |-> [htlcs |-> << >>, opening_fee_msat |-> 0]]

\* a channel_ready that charges one msat more than the fee the open fixed
State_channel_ready_raising_fee(state) ==
  LET fee == IF state.opening_fee_msat = None
               THEN 0 ELSE state.opening_fee_msat[1]
      popped == pop_greater_than_msat(state.payment_queue, fee)
  IN IF state.tag = "PendingChannelOpen" /\ popped.found
       THEN [ok |-> TRUE,
             state |-> JITState("PendingPaymentForward", popped.queue,
                                Some(fee + 1)),
             fee_payment |-> [htlcs |-> popped.htlcs,
                              opening_fee_msat |-> fee + 1]]
       ELSE [ok |-> FALSE, state |-> state,
             fee_payment |-> [htlcs |-> << >>, opening_fee_msat |-> 0]]

\* Result<(Self, FeePayment), ChannelStateError>; a successful pop has
\* already taken the group out of the shared queue
State_channel_ready(state) ==
  IF state.tag = "PendingChannelOpen" THEN
    LET popped == pop_greater_than_msat(state.payment_queue,
                                        state.opening_fee_msat[1])
    IN IF popped.found
         THEN [ok |-> TRUE,
               state |-> JITState("PendingPaymentForward", popped.queue,
                                  state.opening_fee_msat),
               fee_payment |-> [htlcs |-> popped.htlcs,
                                opening_fee_msat |-> state.opening_fee_msat[1]]]
         ELSE [ok |-> FALSE, state |-> state,
               fee_payment |-> [htlcs |-> << >>, opening_fee_msat |-> 0]]
  ELSE [ok |-> FALSE, state |-> state,
        fee_payment |-> [htlcs |-> << >>, opening_fee_msat |-> 0]]

\* a payment_forwarded that makes the channel ready for a new payment
State_payment_forwarded_resetting(state) ==
  IF state.tag = "PendingPaymentForward"
    THEN [ok |-> TRUE, state |-> OutboundJITChannelState_new,
          htlcs |-> clear(state.payment_queue)]
    ELSE [ok |-> FALSE, state |-> state, htlcs |-> << >>]

\* Result<(Self, Vec<InterceptedHTLC>), ChannelStateError>
State_payment_forwarded(state) ==
  IF state.tag = "PendingPaymentForward"
    THEN [ok |-> TRUE, state |-> JITState("PaymentForwarded", << >>, None),
          htlcs |-> clear(state.payment_queue)]
    ELSE [ok |-> FALSE, state |-> state, htlcs |-> << >>]

(* -------------------------- OutboundJITChannel ------------------------- *)

OutboundJITChannel_new(payment_size_msat, opening_fee_params, user_channel_id) ==
  [state |-> OutboundJITChannelState_new,
   user_channel_id |-> user_channel_id,
   opening_fee_params |-> opening_fee_params,
   payment_size_msat |-> payment_size_msat]

\* a wrapper that never stores the new state
Channel_htlc_intercepted_keeping_state(channel, htlc) ==
  LET r == State_htlc_intercepted(channel.state, channel.opening_fee_params,
                                  channel.payment_size_msat, htlc)
  IN [ok |-> r.ok,
      channel |-> [channel EXCEPT !.state.payment_queue =
                                    r.state.payment_queue],
      open_channel_params |-> r.open_channel_params]

\* self.state is replaced on Ok only; the queue is shared, so it changes
\* either way
Channel_htlc_intercepted(channel, htlc) ==
  LET r == State_htlc_intercepted(channel.state, channel.opening_fee_params,
                                  channel.payment_size_msat, htlc)
  IN [ok |-> r.ok, channel |-> [channel EXCEPT !.state = r.state],
      open_channel_params |-> r.open_channel_params]

Channel_channel_ready(channel) ==
  LET r == State_channel_ready(channel.state)
  IN [ok |-> r.ok, channel |-> [channel EXCEPT !.state = r.state],
      fee_payment |-> r.fee_payment]

Channel_payment_forwarded(channel) ==
  LET r == State_payment_forwarded(channel.state)
  IN [ok |-> r.ok, channel |-> [channel EXCEPT !.state = r.state],
      htlcs |-> r.htlcs]

(* ------------------------------ PeerState ------------------------------ *)

PeerState_new ==
  [outbound_channels_by_intercept_scid |-> EmptyMap,
   intercept_scid_by_user_channel_id |-> EmptyMap,
   intercept_scid_by_channel_id |-> EmptyMap,
   pending_requests |-> EmptyMap]

insert_outbound_channel(peer_state, intercept_scid, channel) ==
  [peer_state EXCEPT !.outbound_channels_by_intercept_scid =
                       Insert(@, intercept_scid, channel)]

(* --------------------------- protocol inputs --------------------------- *)

\* the fee menu the LSP hands out (RawOpeningFeeParams)
RawMenu ==
  { [min_fee_msat |-> 1, proportional |-> 0,
     min_payment_size_msat |-> 2, max_payment_size_msat |-> 2],
    [min_fee_msat |-> 1, proportional |-> 1000000,
     min_payment_size_msat |-> 1, max_payment_size_msat |-> 3] }

\* what a client may send back: the promise made under the LSP's secret or
\* another one, the offer still valid or expired
OpeningFeeParams ==
  { [min_fee_msat |-> raw.min_fee_msat, proportional |-> raw.proportional,
     min_payment_size_msat |-> raw.min_payment_size_msat,
     max_payment_size_msat |-> raw.max_payment_size_msat,
     promise |-> pr[1], valid_until |-> pr[2]] :
      raw \in RawMenu,
      pr \in { <<"lsp_secret", "future">>, <<"other_secret", "future">>,
               <<"lsp_secret", "past">> } }

PaymentSizes == {None} \cup {Some(v) : v \in 1..MaxAmount}

BuyRequests ==
  [opening_fee_params : OpeningFeeParams, payment_size_msat : PaymentSizes]

GetInfo(params) == [kind |-> "GetInfo", buy |-> None]
Buy(params) == [kind |-> "Buy", buy |-> Some(params)]

\* a call's Result, the error's text left out
Result(ok) == IF ok THEN "Ok" ELSE "Err"

(* -------------------------------- state -------------------------------- *)

VARIABLES
  per_peer_state,          \* PublicKey -> PeerState, the peers that have one
  peer_by_intercept_scid,  \* u64 -> PublicKey
  peer_by_channel_id,      \* ChannelId -> PublicKey
  pending_messages,        \* MessageQueue: the responses enqueued
  pending_events,          \* EventQueue: the events enqueued
  failed_htlcs,            \* the calls of fail_intercepted_htlc, in order
  forwarded_htlcs,         \* the calls of forward_intercepted_htlc, in order
  intercepted,             \* intercept_id -> the SCID and HTLC handed to add_htlc
  n_requests,              \* requests handled so far
  returned,                \* what the last call returned: "Ok" or "Err"
  calc,                    \* calculate_amount_to_forward_per_htlc run alone
  threads,                 \* each thread's call and the locks it holds
  lock_owners              \* each lock's readers and writer

handlerVars ==
  << per_peer_state, peer_by_intercept_scid, peer_by_channel_id,
     pending_messages, pending_events, failed_htlcs, forwarded_htlcs,
     intercepted, n_requests, returned >>
lockVars == << threads, lock_owners >>
vars == << handlerVars, calc, lockVars >>

NoCalc == [pc |-> "off", htlcs |-> << >>, total_fee_msat |-> 0, out |-> << >>]
NoThreads == [t \in {} |-> 0]
NoLocks == [l \in {} |-> 0]

HandlerInit ==
  /\ per_peer_state = EmptyMap
  /\ peer_by_intercept_scid = EmptyMap
  /\ peer_by_channel_id = EmptyMap
  /\ pending_messages = << >>
  /\ pending_events = << >>
  /\ failed_htlcs = << >>
  /\ forwarded_htlcs = << >>
  /\ intercepted = EmptyMap
  /\ n_requests = 0
  /\ returned = Result(TRUE)

Init == HandlerInit /\ calc = NoCalc /\ threads = NoThreads /\ lock_owners = NoLocks

(* ------------------------- LSPS2ServiceHandler ------------------------- *)

enqueue_response(queue, counterparty_node_id, request_id, response) ==
  Append(queue, [counterparty_node_id |-> counterparty_node_id,
                 request_id |-> request_id, response |-> response])

\* per_peer_state.entry(peer).or_insert(PeerState::new()), then
\* pending_requests.insert(request_id, request)
record_request(peers, counterparty_node_id, request_id, request) ==
  LET peer_state == IF counterparty_node_id \in DOMAIN peers
                      THEN peers[counterparty_node_id] ELSE PeerState_new
  IN Insert(peers, counterparty_node_id,
            [peer_state EXCEPT !.pending_requests =
                                 Insert(@, request_id, request)])

handle_get_info_request(request_id, counterparty_node_id) ==
  /\ per_peer_state' = record_request(per_peer_state, counterparty_node_id,
                                      request_id, GetInfo(None))
  /\ pending_events' = Append(pending_events,
                              [type |-> "GetInfo", request_id |-> request_id,
                               counterparty_node_id |-> counterparty_node_id])
  /\ returned' = Result(TRUE)
  /\ UNCHANGED pending_messages

\* a validation that looks at the promise before the payment size
buy_rejection_promise_first(params) ==
  LET size == params.payment_size_msat
      fee_params == params.opening_fee_params
      fee == compute_opening_fee(size[1], fee_params.min_fee_msat,
                                 fee_params.proportional)
  IN IF ~is_valid_opening_fee_params(fee_params)
       THEN Some(LSPS2_BUY_REQUEST_INVALID_OPENING_FEE_PARAMS_ERROR_CODE)
     ELSE IF size # None /\ size[1] < fee_params.min_payment_size_msat
       THEN Some(LSPS2_BUY_REQUEST_PAYMENT_SIZE_TOO_SMALL_ERROR_CODE)
     ELSE IF size # None /\ size[1] > fee_params.max_payment_size_msat
       THEN Some(LSPS2_BUY_REQUEST_PAYMENT_SIZE_TOO_LARGE_ERROR_CODE)
     ELSE IF size # None /\ fee = None
       THEN Some(LSPS2_BUY_REQUEST_PAYMENT_SIZE_TOO_LARGE_ERROR_CODE)
     ELSE IF size # None /\ fee[1] >= size[1]
       THEN Some(LSPS2_BUY_REQUEST_PAYMENT_SIZE_TOO_SMALL_ERROR_CODE)
     ELSE None

\* a validation that lets through a payment size the fee would use up
buy_rejection_ignoring_fee(params) ==
  LET size == params.payment_size_msat
      fee_params == params.opening_fee_params
  IN IF size # None /\ size[1] < fee_params.min_payment_size_msat
       THEN Some(LSPS2_BUY_REQUEST_PAYMENT_SIZE_TOO_SMALL_ERROR_CODE)
     ELSE IF size # None /\ size[1] > fee_params.max_payment_size_msat
       THEN Some(LSPS2_BUY_REQUEST_PAYMENT_SIZE_TOO_LARGE_ERROR_CODE)
     ELSE IF ~is_valid_opening_fee_params(fee_params)
       THEN Some(LSPS2_BUY_REQUEST_INVALID_OPENING_FEE_PARAMS_ERROR_CODE)
     ELSE None

\* the error code handle_buy_request answers the request with, None when it
\* accepts it
buy_rejection(params) ==
  LET size == params.payment_size_msat
      fee_params == params.opening_fee_params
      fee == compute_opening_fee(size[1], fee_params.min_fee_msat,
                                 fee_params.proportional)
  IN IF size # None /\ size[1] < fee_params.min_payment_size_msat
       THEN Some(LSPS2_BUY_REQUEST_PAYMENT_SIZE_TOO_SMALL_ERROR_CODE)
     ELSE IF size # None /\ size[1] > fee_params.max_payment_size_msat
       THEN Some(LSPS2_BUY_REQUEST_PAYMENT_SIZE_TOO_LARGE_ERROR_CODE)
     ELSE IF size # None /\ fee = None
       THEN Some(LSPS2_BUY_REQUEST_PAYMENT_SIZE_TOO_LARGE_ERROR_CODE)
     ELSE IF size # None /\ fee[1] >= size[1]
       THEN Some(LSPS2_BUY_REQUEST_PAYMENT_SIZE_TOO_SMALL_ERROR_CODE)
     ELSE IF ~is_valid_opening_fee_params(fee_params)
       THEN Some(LSPS2_BUY_REQUEST_INVALID_OPENING_FEE_PARAMS_ERROR_CODE)
     ELSE None

\* a handler that records the request, then validates it
handle_buy_request_recording_first(request_id, counterparty_node_id, params) ==
  LET rejection == buy_rejection(params)
  IN /\ returned' = Result(rejection = None)
     /\ per_peer_state' =
          record_request(per_peer_state, counterparty_node_id,
                         request_id, Buy(params))
     /\ IF rejection # None
          THEN /\ pending_messages' =
                    enqueue_response(pending_messages, counterparty_node_id,
                                     request_id,
                                     [kind |-> "BuyError", code |-> rejection[1]])
               /\ UNCHANGED pending_events
          ELSE /\ pending_events' =
                    Append(pending_events,
                           [type |-> "BuyRequest", request_id |-> request_id,
                            counterparty_node_id |-> counterparty_node_id,
                            opening_fee_params |-> params.opening_fee_params,
                            payment_size_msat |-> params.payment_size_msat])
               /\ UNCHANGED pending_messages

handle_buy_request(request_id, counterparty_node_id, params) ==
  LET rejection == buy_rejection(params)
  IN /\ returned' = Result(rejection = None)
     /\ IF rejection # None
          THEN /\ pending_messages' =
                    enqueue_response(pending_messages, counterparty_node_id,
                                     request_id,
                                     [kind |-> "BuyError", code |-> rejection[1]])
               /\ UNCHANGED << per_peer_state, pending_events >>
          ELSE /\ per_peer_state' =
                    record_request(per_peer_state, counterparty_node_id,
                                   request_id, Buy(params))
               /\ pending_events' =
                    Append(pending_events,
                           [type |-> "BuyRequest", request_id |-> request_id,
                            counterparty_node_id |-> counterparty_node_id,
                            opening_fee_params |-> params.opening_fee_params,
                            payment_size_msat |-> params.payment_size_msat])
               /\ UNCHANGED pending_messages

\* a message is Request(request_id, GetInfo | Buy) or a Response
handle_message(message, counterparty_node_id) ==
  /\ n_requests' = n_requests + 1
  /\ CASE message.kind = "GetInfo" ->
            handle_get_info_request(message.request_id, counterparty_node_id)
       [] message.kind = "Buy" ->
            handle_buy_request(message.request_id, counterparty_node_id,
                               message.params)
       [] OTHER ->
            /\ returned' = Result(FALSE)
            /\ UNCHANGED << per_peer_state, pending_messages, pending_events >>
  /\ UNCHANGED << peer_by_intercept_scid, peer_by_channel_id, failed_htlcs,
                  forwarded_htlcs, intercepted >>

Messages(request_ids) ==
  { [kind |-> "GetInfo", request_id |-> r] : r \in request_ids }
    \cup { [kind |-> "Response", request_id |-> r] : r \in request_ids }
    \cup { [kind |-> "Buy", request_id |-> r, params |-> b] :
             r \in request_ids, b \in BuyRequests }

\* pending_requests.remove(request_id): the request is gone whatever it was
take_request(counterparty_node_id, request_id) ==
  [per_peer_state EXCEPT ![counterparty_node_id].pending_requests =
                           Remove(@, request_id)]

pending_kind(counterparty_node_id, request_id) ==
  IF counterparty_node_id \notin DOMAIN per_peer_state THEN "no peer"
  ELSE IF request_id \notin
            DOMAIN per_peer_state[counterparty_node_id].pending_requests
    THEN "none"
  ELSE per_peer_state[counterparty_node_id].pending_requests[request_id].kind

\* the two operator answers to a GetInfo event: `response` is what is
\* enqueued when the pending request is a GetInfo
answer_get_info(counterparty_node_id, request_id, response) ==
  LET kind == pending_kind(counterparty_node_id, request_id)
  IN /\ returned' = Result(kind = "GetInfo")
     /\ per_peer_state' =
          IF kind = "no peer" THEN per_peer_state
          ELSE take_request(counterparty_node_id, request_id)
     /\ pending_messages' =
          IF kind = "GetInfo"
            THEN enqueue_response(pending_messages, counterparty_node_id,
                                  request_id, response)
            ELSE pending_messages
     /\ UNCHANGED << peer_by_intercept_scid, peer_by_channel_id,
                     pending_events, failed_htlcs, forwarded_htlcs,
                     intercepted, n_requests >>

invalid_token_provided(counterparty_node_id, request_id) ==
  answer_get_info(counterparty_node_id, request_id,
    [kind |-> "GetInfoError",
     code |-> LSPS2_GET_INFO_REQUEST_UNRECOGNIZED_OR_STALE_TOKEN_ERROR_CODE])

\* into_opening_fee_params signs each entry of the menu with the LSP's secret
opening_fee_params_generated(counterparty_node_id, request_id, opening_fee_params_menu) ==
  answer_get_info(counterparty_node_id, request_id,
    [kind |-> "GetInfo",
     opening_fee_params_menu |->
       { [min_fee_msat |-> raw.min_fee_msat,
          proportional |-> raw.proportional,
          min_payment_size_msat |-> raw.min_payment_size_msat,
          max_payment_size_msat |-> raw.max_payment_size_msat,
          promise |-> "lsp_secret", valid_until |-> "future"] :
            raw \in opening_fee_params_menu }])

\* an invoice_parameters_generated that forgets the buy's payment size
invoice_parameters_generated_unsized(counterparty_node_id, request_id, intercept_scid, user_channel_id) ==
  LET kind == pending_kind(counterparty_node_id, request_id)
      taken == take_request(counterparty_node_id, request_id)
      buy_request ==
        per_peer_state[counterparty_node_id].pending_requests[request_id].buy[1]
      peer_state ==
        [taken[counterparty_node_id] EXCEPT
           !.intercept_scid_by_user_channel_id =
              Insert(@, user_channel_id, intercept_scid)]
  IN /\ returned' = Result(kind = "Buy")
     /\ IF kind = "Buy"
          THEN /\ peer_by_intercept_scid' =
                    Insert(peer_by_intercept_scid, intercept_scid,
                           counterparty_node_id)
               /\ per_peer_state' =
                    [taken EXCEPT ![counterparty_node_id] =
                       insert_outbound_channel(peer_state, intercept_scid,
                         OutboundJITChannel_new(None,
                           buy_request.opening_fee_params, user_channel_id))]
               /\ pending_messages' =
                    enqueue_response(pending_messages, counterparty_node_id,
                                     request_id,
                                     [kind |-> "Buy",
                                      intercept_scid |-> intercept_scid])
          ELSE /\ per_peer_state' =
                    IF kind = "no peer" THEN per_peer_state ELSE taken
               /\ UNCHANGED << peer_by_intercept_scid, pending_messages >>
     /\ UNCHANGED << peer_by_channel_id, pending_events, failed_htlcs,
                     forwarded_htlcs, intercepted, n_requests >>

invoice_parameters_generated(counterparty_node_id, request_id, intercept_scid, user_channel_id) ==
  LET kind == pending_kind(counterparty_node_id, request_id)
      taken == take_request(counterparty_node_id, request_id)
      buy_request ==
        per_peer_state[counterparty_node_id].pending_requests[request_id].buy[1]
      outbound_jit_channel ==
        OutboundJITChannel_new(buy_request.payment_size_msat,
                               buy_request.opening_fee_params, user_channel_id)
      peer_state ==
        [taken[counterparty_node_id] EXCEPT
           !.intercept_scid_by_user_channel_id =
              Insert(@, user_channel_id, intercept_scid)]
  IN /\ returned' = Result(kind = "Buy")
     /\ IF kind = "Buy"
          THEN /\ peer_by_intercept_scid' =
                    Insert(peer_by_intercept_scid, intercept_scid,
                           counterparty_node_id)
               /\ per_peer_state' =
                    [taken EXCEPT ![counterparty_node_id] =
                       insert_outbound_channel(peer_state, intercept_scid,
                                               outbound_jit_channel)]
               /\ pending_messages' =
                    enqueue_response(pending_messages, counterparty_node_id,
                                     request_id,
                                     [kind |-> "Buy",
                                      intercept_scid |-> intercept_scid])
          ELSE /\ per_peer_state' =
                    IF kind = "no peer" THEN per_peer_state ELSE taken
               /\ UNCHANGED << peer_by_intercept_scid, pending_messages >>
     /\ UNCHANGED << peer_by_channel_id, pending_events, failed_htlcs,
                     forwarded_htlcs, intercepted, n_requests >>

\* forward_intercepted_htlc / fail_intercepted_htlc return a Result: the
\* calls made when call number fail_at (if there is one) returns Err and `?`
\* leaves the loop; 0 lets every call succeed
CallsMade(calls, fail_at) ==
  IF fail_at \in 1..Len(calls)
    THEN [i \in 1..fail_at |-> [calls[i] EXCEPT !.ok = (i # fail_at)]]
    ELSE calls

\* what the lookups of htlc_intercepted find for an SCID
lookup_intercept_scid(intercept_scid) ==
  IF intercept_scid \notin DOMAIN peer_by_intercept_scid THEN "not ours"
  ELSE IF peer_by_intercept_scid[intercept_scid] \notin DOMAIN per_peer_state
    THEN "no counterparty"
  ELSE IF intercept_scid \notin
            DOMAIN per_peer_state[peer_by_intercept_scid[intercept_scid]]
                     .outbound_channels_by_intercept_scid
    THEN "no channel"
  ELSE "channel"

store_channel(counterparty_node_id, intercept_scid, channel) ==
  [per_peer_state EXCEPT
     ![counterparty_node_id].outbound_channels_by_intercept_scid =
        Insert(@, intercept_scid, channel)]

drop_channel(counterparty_node_id, intercept_scid) ==
  [per_peer_state EXCEPT
     ![counterparty_node_id].outbound_channels_by_intercept_scid =
        Remove(@, intercept_scid)]

\* the match on jit_channel.htlc_intercepted(htlc)
htlc_to_channel(intercept_scid, htlc, fail_ok) ==
  LET counterparty_node_id == peer_by_intercept_scid[intercept_scid]
      jit_channel == per_peer_state[counterparty_node_id]
                       .outbound_channels_by_intercept_scid[intercept_scid]
      r == Channel_htlc_intercepted(jit_channel, htlc)
  IN /\ intercepted' =
          IF jit_channel.state.tag = "PendingInitialPayment"
            THEN Insert(intercepted, htlc.intercept_id,
                        [intercept_scid |-> intercept_scid, htlc |-> htlc])
            ELSE intercepted
     /\ IF r.ok /\ r.open_channel_params # None
          THEN /\ pending_events' =
                    Append(pending_events,
                      [type |-> "OpenChannel",
                       their_network_key |-> counterparty_node_id,
                       amt_to_forward_msat |->
                         r.open_channel_params[1].amt_to_forward_msat,
                       opening_fee_msat |->
                         r.open_channel_params[1].opening_fee_msat,
                       user_channel_id |-> jit_channel.user_channel_id,
                       intercept_scid |-> intercept_scid])
               /\ per_peer_state' =
                    store_channel(counterparty_node_id, intercept_scid, r.channel)
               /\ returned' = Result(TRUE)
               /\ UNCHANGED failed_htlcs
        ELSE IF r.ok
          THEN /\ per_peer_state' =
                    store_channel(counterparty_node_id, intercept_scid, r.channel)
               /\ returned' = Result(TRUE)
               /\ UNCHANGED << pending_events, failed_htlcs >>
        ELSE /\ failed_htlcs' =
                  Append(failed_htlcs, [intercept_id |-> htlc.intercept_id,
                                        ok |-> fail_ok])
             /\ per_peer_state' =
                  IF fail_ok
                    THEN drop_channel(counterparty_node_id, intercept_scid)
                    ELSE store_channel(counterparty_node_id, intercept_scid,
                                       r.channel)
             /\ returned' = Result(FALSE)
             /\ UNCHANGED pending_events

\* an htlc_intercepted that fails the HTLCs of SCIDs it does not know
htlc_intercepted_failing_unknown(intercept_scid, intercept_id, expected_outbound_amount_msat, payment_hash, fail_ok) ==
  LET htlc == [intercept_id |-> intercept_id,
               expected_outbound_amount_msat |-> expected_outbound_amount_msat,
               payment_hash |-> payment_hash]
  IN /\ UNCHANGED << peer_by_intercept_scid, peer_by_channel_id,
                     pending_messages, forwarded_htlcs, n_requests >>
     /\ IF lookup_intercept_scid(intercept_scid) = "channel"
          THEN htlc_to_channel(intercept_scid, htlc, fail_ok)
          ELSE /\ returned' = Result(FALSE)
               /\ failed_htlcs' =
                    Append(failed_htlcs,
                           [intercept_id |-> intercept_id, ok |-> TRUE])
               /\ UNCHANGED << per_peer_state, pending_events, intercepted >>

\* an htlc_intercepted that fails the HTLCs of an SCID that lost its channel
htlc_intercepted_failing_dropped(intercept_scid, intercept_id, expected_outbound_amount_msat, payment_hash, fail_ok) ==
  LET htlc == [intercept_id |-> intercept_id,
               expected_outbound_amount_msat |-> expected_outbound_amount_msat,
               payment_hash |-> payment_hash]
      found == lookup_intercept_scid(intercept_scid)
  IN /\ UNCHANGED << peer_by_intercept_scid, peer_by_channel_id,
                     pending_messages, forwarded_htlcs, n_requests >>
     /\ IF found = "channel"
          THEN htlc_to_channel(intercept_scid, htlc, fail_ok)
          ELSE /\ returned' = Result(found = "not ours")
               /\ failed_htlcs' =
                    IF found = "no channel"
                      THEN Append(failed_htlcs,
                                  [intercept_id |-> intercept_id, ok |-> TRUE])
                      ELSE failed_htlcs
               /\ UNCHANGED << per_peer_state, pending_events, intercepted >>

\* fail_ok: what fail_intercepted_htlc returns, should it be called
htlc_intercepted(intercept_scid, intercept_id, expected_outbound_amount_msat, payment_hash, fail_ok) ==
  LET htlc == [intercept_id |-> intercept_id,
               expected_outbound_amount_msat |-> expected_outbound_amount_msat,
               payment_hash |-> payment_hash]
      found == lookup_intercept_scid(intercept_scid)
  IN /\ UNCHANGED << peer_by_intercept_scid, peer_by_channel_id,
                     pending_messages, forwarded_htlcs, n_requests >>
     /\ IF found = "channel"
          THEN htlc_to_channel(intercept_scid, htlc, fail_ok)
          ELSE /\ returned' = Result(found # "no counterparty")
               /\ UNCHANGED << per_peer_state, pending_events, failed_htlcs,
                               intercepted >>

\* what the lookups of channel_ready find for a user_channel_id
lookup_user_channel_id(user_channel_id, counterparty_node_id) ==
  IF counterparty_node_id \notin DOMAIN per_peer_state THEN "no counterparty"
  ELSE IF user_channel_id \notin
            DOMAIN per_peer_state[counterparty_node_id]
                     .intercept_scid_by_user_channel_id
    THEN "no scid"
  ELSE IF per_peer_state[counterparty_node_id]
            .intercept_scid_by_user_channel_id[user_channel_id]
          \notin DOMAIN per_peer_state[counterparty_node_id]
                          .outbound_channels_by_intercept_scid
    THEN "no channel"
  ELSE "channel"

forward_call(intercept_id, channel_id, counterparty_node_id, amount_msat) ==
  [intercept_id |-> intercept_id, channel_id |-> channel_id,
   counterparty_node_id |-> counterparty_node_id,
   amount_msat |-> amount_msat, ok |-> TRUE]

\* the match on jit_channel.channel_ready(): the new channel, the forward
\* calls made and whether the handler returns Ok
forward_payment(jit_channel, channel_id, counterparty_node_id, fail_at) ==
  LET ready == Channel_channel_ready(jit_channel)
      amounts_to_forward_msat ==
        calculate_amount_to_forward_per_htlc(ready.fee_payment.htlcs,
                                             ready.fee_payment.opening_fee_msat)
      fee_calls == [i \in 1..Len(amounts_to_forward_msat) |->
                      forward_call(amounts_to_forward_msat[i].intercept_id,
                        channel_id, counterparty_node_id,
                        amounts_to_forward_msat[i].amount_to_forward_msat)]
      forwarded == Channel_payment_forwarded(ready.channel)
      free_calls == [i \in 1..Len(forwarded.htlcs) |->
                       forward_call(forwarded.htlcs[i].intercept_id,
                         channel_id, counterparty_node_id,
                         forwarded.htlcs[i].expected_outbound_amount_msat)]
      free_fail_at == IF fail_at > Len(fee_calls)
                        THEN fail_at - Len(fee_calls) ELSE 0
  IN IF ~ready.ok
       THEN [ok |-> FALSE, channel |-> ready.channel, calls |-> << >>]
     ELSE IF fail_at \in 1..Len(fee_calls)
       THEN [ok |-> FALSE, channel |-> ready.channel,
             calls |-> CallsMade(fee_calls, fail_at)]
     ELSE IF ~forwarded.ok
       THEN [ok |-> FALSE, channel |-> ready.channel, calls |-> fee_calls]
     ELSE [ok |-> free_fail_at \notin 1..Len(free_calls),
           channel |-> forwarded.channel,
           calls |-> fee_calls \o CallsMade(free_calls, free_fail_at)]

\* fail_at: which call of forward_intercepted_htlc returns Err, 0 for none
channel_ready(user_channel_id, channel_id, counterparty_node_id, fail_at) ==
  LET found == lookup_user_channel_id(user_channel_id, counterparty_node_id)
      peer_state == per_peer_state[counterparty_node_id]
      intercept_scid ==
        peer_state.intercept_scid_by_user_channel_id[user_channel_id]
      bound == [peer_state EXCEPT !.intercept_scid_by_channel_id =
                                    Insert(@, channel_id, intercept_scid)]
      done == forward_payment(
                peer_state.outbound_channels_by_intercept_scid[intercept_scid],
                channel_id, counterparty_node_id, fail_at)
  IN /\ peer_by_channel_id' =
          Insert(peer_by_channel_id, channel_id, counterparty_node_id)
     /\ UNCHANGED << peer_by_intercept_scid, pending_messages, pending_events,
                     failed_htlcs, intercepted, n_requests >>
     /\ returned' = Result(found = "channel" /\ done.ok)
     /\ per_peer_state' =
          CASE found = "channel" ->
                 [per_peer_state EXCEPT ![counterparty_node_id] =
                    insert_outbound_channel(bound, intercept_scid, done.channel)]
            [] found = "no channel" ->
                 [per_peer_state EXCEPT ![counterparty_node_id] = bound]
            [] OTHER -> per_peer_state
     /\ forwarded_htlcs' =
          IF found = "channel" THEN forwarded_htlcs \o done.calls
          ELSE forwarded_htlcs

(* ---------------------------- specification ---------------------------- *)

\* Identifiers are opaque: the handler only compares them. A behaviour that
\* names them in another order is a renaming of one that names them in this
\* order, so the environment draws an identifier from those already named
\* and the first one not yet named.
Named(ids, known) ==
  {ids[i] : i \in {j \in 1..Len(ids) : \A k \in 1..(j - 1) : ids[k] \in known}}

KnownPeers ==
  DOMAIN per_peer_state \cup Range(peer_by_channel_id)
    \cup {m.counterparty_node_id : m \in Range(pending_messages)}
KnownRequestIds ==
  {m.request_id : m \in Range(pending_messages)}
    \cup {e.request_id :
            e \in {x \in Range(pending_events) : x.type # "OpenChannel"}}
KnownScids == DOMAIN peer_by_intercept_scid
KnownUserChannelIds ==
  UNION {DOMAIN per_peer_state[p].intercept_scid_by_user_channel_id :
           p \in DOMAIN per_peer_state}
KnownPaymentHashes == {i.htlc.payment_hash : i \in Range(intercepted)}

\* The channel manager hands out each InterceptId once: the first of
\* 1..MaxHtlcs that the handler has not been given in a call that left a trace
KnownInterceptIds ==
  DOMAIN intercepted \cup {f.intercept_id : f \in Range(failed_htlcs)}
NewInterceptIds ==
  {i \in 1..MaxHtlcs : /\ i \notin KnownInterceptIds
                       /\ \A j \in 1..(i - 1) : j \in KnownInterceptIds}

\* The channel manager's answers are drawn where a call can be made: the
\* result of fail_intercepted_htlc when the SCID has a channel, the failing
\* forward_intercepted_htlc among as many calls as the channel queues HTLCs.
FailResults(intercept_scid) ==
  IF lookup_intercept_scid(intercept_scid) = "channel"
    THEN BOOLEAN ELSE {TRUE}

ForwardCalls(user_channel_id, counterparty_node_id) ==
  IF lookup_user_channel_id(user_channel_id, counterparty_node_id) = "channel"
    THEN QueueCount(
           per_peer_state[counterparty_node_id]
             .outbound_channels_by_intercept_scid[
                per_peer_state[counterparty_node_id]
                  .intercept_scid_by_user_channel_id[user_channel_id]]
             .state.payment_queue)
    ELSE 0

\* One call of each entry point, with the inputs the environment can give it.
Call_handle_message ==
  /\ n_requests < MaxRequests
  /\ \E message \in Messages(Named(RequestIds, KnownRequestIds)),
        peer \in Named(Peers, KnownPeers) :
       handle_message(message, peer)
  /\ UNCHANGED << calc, lockVars >>

Call_invalid_token_provided ==
  /\ \E peer \in Named(Peers, KnownPeers),
        request_id \in Named(RequestIds, KnownRequestIds) :
       invalid_token_provided(peer, request_id)
  /\ UNCHANGED << calc, lockVars >>

Call_opening_fee_params_generated ==
  /\ \E peer \in Named(Peers, KnownPeers),
        request_id \in Named(RequestIds, KnownRequestIds) :
       opening_fee_params_generated(peer, request_id, RawMenu)
  /\ UNCHANGED << calc, lockVars >>

Call_invoice_parameters_generated ==
  /\ \E peer \in Named(Peers, KnownPeers),
        request_id \in Named(RequestIds, KnownRequestIds),
        scid \in Named(Scids, KnownScids),
        user_channel_id \in Named(UserChannelIds, KnownUserChannelIds) :
       invoice_parameters_generated(peer, request_id, scid, user_channel_id)
  /\ UNCHANGED << calc, lockVars >>

Call_htlc_intercepted ==
  /\ \E scid \in Named(Scids, KnownScids),
        intercept_id \in NewInterceptIds, amount \in 1..MaxAmount,
        hash \in Named(PaymentHashes, KnownPaymentHashes) :
       \E fail_ok \in FailResults(scid) :
         htlc_intercepted(scid, intercept_id, amount, hash, fail_ok)
  /\ UNCHANGED << calc, lockVars >>

Call_channel_ready ==
  /\ \E user_channel_id \in Named(UserChannelIds, KnownUserChannelIds),
        channel_id \in Range(ChannelIds),
        peer \in Named(Peers, KnownPeers) :
       \E fail_at \in 0..ForwardCalls(user_channel_id, peer) :
         channel_ready(user_channel_id, channel_id, peer, fail_at)
  /\ UNCHANGED << calc, lockVars >>

Next ==
  \/ Call_handle_message
  \/ Call_invalid_token_provided
  \/ Call_opening_fee_params_generated
  \/ Call_invoice_parameters_generated
  \/ Call_htlc_intercepted
  \/ Call_channel_ready

Spec == Init /\ [][Next]_vars

(* ------------- calculate_amount_to_forward_per_htlc alone -------------- *)

\* the lists handed to the function: 1..MaxLen HTLCs of one payment, amounts
\* from 1..MaxAmount, the intercept ids in rising or in falling order
HtlcLists ==
  { [i \in 1..n |->
       [intercept_id |-> IF rising THEN i ELSE n + 1 - i,
        expected_outbound_amount_msat |-> amounts[i],
        payment_hash |-> PaymentHashes[1]]] :
      n \in 1..MaxLen, amounts \in [1..MaxLen -> 1..MaxAmount],
      rising \in BOOLEAN }

InitCalc ==
  /\ HandlerInit
  /\ threads = NoThreads
  /\ lock_owners = NoLocks
  /\ calc \in { [pc |-> "call", htlcs |-> htlcs, total_fee_msat |-> fee,
                  out |-> << >>] :
                  htlcs \in HtlcLists, fee \in 0..(MaxLen * MaxAmount + 1) }

\* the call returns its Vec
Calculate ==
  /\ calc.pc = "call"
  /\ calc' = [calc EXCEPT
                !.pc = "done",
                !.out = calculate_amount_to_forward_per_htlc(
                          calc.htlcs, calc.total_fee_msat)]
  /\ UNCHANGED << handlerVars, lockVars >>

\* with debug assertions on, the call panics at debug_assert!(false, ..)
CalculatePanics ==
  /\ calc.pc = "call"
  /\ calc.total_fee_msat > SumAmounts(calc.htlcs)
  /\ calc' = [calc EXCEPT !.pc = "panicked"]
  /\ UNCHANGED << handlerVars, lockVars >>

NextCalc == Calculate \/ CalculatePanics

SpecCalc == InitCalc /\ [][NextCalc]_vars

(* ------------------------- the locks of the handler -------------------- *)

\* Calls run on threads and take the handler's locks one at a time, in the
\* order of the code. A call's effect on the handler's state is made while
\* it holds the last of its locks: everything it read on the way is behind a
\* lock it still holds.
ThreadIds == << "t1", "t2" >>

\* the RwLocks of the handler, and one Mutex<PeerState> per peer
LockNames ==
  {"peer_by_intercept_scid", "peer_by_channel_id", "per_peer_state"}
    \cup Range(Peers)

NoCall == [op |-> "idle", message |-> [kind |-> "-"], peer |-> "-",
           request_id |-> "-", scid |-> 0, user_channel_id |-> 0,
           channel_id |-> "-", intercept_id |-> 0,
           expected_outbound_amount_msat |-> 0]
IdleThread == [call |-> NoCall, held |-> << >>, at |-> 0]

InitLock ==
  /\ HandlerInit
  /\ calc = NoCalc
  /\ threads = [t \in Range(ThreadIds) |-> IdleThread]
  /\ lock_owners = [l \in LockNames |-> {}]

acquire(lock, mode) == [kind |-> "acquire", lock |-> lock, mode |-> mode]
release(lock) == [kind |-> "release", lock |-> lock, mode |-> "-"]
return == [kind |-> "return", lock |-> "-", mode |-> "-"]

\* the step a call is at, after `at` steps on its locks
call_step(call, at) ==
  CASE call.op = "handle_message" ->
         IF \/ call.message.kind = "Response"
            \/ /\ call.message.kind = "Buy"
               /\ buy_rejection(call.message.params) # None
           THEN return
         ELSE IF at = 0 THEN acquire("per_peer_state", "write")
         ELSE IF at = 1 THEN acquire(call.peer, "lock")
         ELSE return
    [] call.op \in {"invalid_token_provided", "opening_fee_params_generated"} ->
         IF at = 0 THEN acquire("per_peer_state", "read")
         ELSE IF at = 1 /\ call.peer \in DOMAIN per_peer_state
           THEN acquire(call.peer, "lock")
         ELSE return
    [] call.op = "invoice_parameters_generated" ->
         IF at = 0 THEN acquire("per_peer_state", "read")
         ELSE IF at = 1 /\ call.peer \in DOMAIN per_peer_state
           THEN acquire(call.peer, "lock")
         ELSE IF at = 2 /\ pending_kind(call.peer, call.request_id) = "Buy"
           THEN acquire("peer_by_intercept_scid", "write")
         ELSE return
    [] call.op = "htlc_intercepted" ->
         IF at = 0 THEN acquire("peer_by_intercept_scid", "read")
         ELSE IF at = 1 /\ call.scid \in DOMAIN peer_by_intercept_scid
           THEN acquire("per_peer_state", "read")
         ELSE IF at = 2 /\ peer_by_intercept_scid[call.scid]
                              \in DOMAIN per_peer_state
           THEN acquire(peer_by_intercept_scid[call.scid], "lock")
         ELSE return
    [] call.op = "channel_ready" ->
         IF at = 0 THEN acquire("peer_by_channel_id", "write")
         ELSE IF at = 1 THEN release("peer_by_channel_id")
         ELSE IF at = 2 THEN acquire("per_peer_state", "read")
         ELSE IF at = 3 /\ call.peer \in DOMAIN per_peer_state
           THEN acquire(call.peer, "lock")
         ELSE return
    [] OTHER -> return

\* RwLock::read waits for the writer, RwLock::write and Mutex::lock for
\* every holder
can_acquire(lock, mode) ==
  IF mode = "read"
    THEN \A o \in lock_owners[lock] : o.mode = "read"
    ELSE lock_owners[lock] = {}

\* the call's effect on the handler's state
call_effect(call) ==
  CASE call.op = "handle_message" -> handle_message(call.message, call.peer)
    [] call.op = "invalid_token_provided" ->
         invalid_token_provided(call.peer, call.request_id)
    [] call.op = "opening_fee_params_generated" ->
         opening_fee_params_generated(call.peer, call.request_id, RawMenu)
    [] call.op = "invoice_parameters_generated" ->
         invoice_parameters_generated(call.peer, call.request_id, call.scid,
                                      call.user_channel_id)
    [] call.op = "htlc_intercepted" ->
         htlc_intercepted(call.scid, call.intercept_id,
                          call.expected_outbound_amount_msat,
                          PaymentHashes[1], TRUE)
    [] call.op = "channel_ready" ->
         channel_ready(call.user_channel_id, call.channel_id, call.peer, 0)

Running == {threads[t].call : t \in Range(ThreadIds)}

\* the requests the clients send while the locks are watched are those that
\* take a lock: a get_info, and a buy the handler accepts
LockBuyRequests ==
  { b \in BuyRequests :
      /\ b.payment_size_msat
           \in {None, Some(b.opening_fee_params.min_payment_size_msat)}
      /\ b.opening_fee_params.proportional = 0
      /\ buy_rejection(b) = None }

\* the HTLCs pay the most a menu entry allows
LockAmounts == {raw.max_payment_size_msat : raw \in RawMenu}

LockMessages(request_ids) ==
  { m \in Messages(request_ids) :
      /\ m.kind # "Response"
      /\ m.kind = "Buy" => m.params \in LockBuyRequests }

\* the calls a thread may start: one peer, one SCID, one user_channel_id and
\* one channel, the request ids named as in Next, those of the running calls
\* counting as named
LockCalls ==
  LET request_ids ==
        Named(RequestIds,
              KnownRequestIds \cup {c.request_id : c \in Running}
                \cup {c.message.request_id :
                        c \in {r \in Running : r.op = "handle_message"}})
      intercept_ids ==
        {i \in 1..MaxHtlcs :
           /\ i \notin KnownInterceptIds \cup {c.intercept_id : c \in Running}
           /\ \A j \in 1..(i - 1) :
                j \in KnownInterceptIds \cup {c.intercept_id : c \in Running}}
      handled ==
        n_requests + Cardinality({t \in Range(ThreadIds) :
                                   threads[t].call.op = "handle_message"})
      call == [NoCall EXCEPT !.peer = Peers[1]]
  IN { [call EXCEPT !.op = "handle_message", !.message = m] :
         m \in IF handled < MaxRequests
                 THEN LockMessages(request_ids) ELSE {} }
     \cup { [call EXCEPT !.op = op, !.request_id = r] :
              op \in {"invalid_token_provided", "opening_fee_params_generated"},
              r \in request_ids }
     \cup { [call EXCEPT !.op = "invoice_parameters_generated",
                         !.request_id = r, !.scid = Scids[1],
                         !.user_channel_id = UserChannelIds[1]] :
              r \in request_ids }
     \cup { [call EXCEPT !.op = "htlc_intercepted", !.scid = Scids[1],
                         !.intercept_id = i,
                         !.expected_outbound_amount_msat = amount] :
              i \in intercept_ids, amount \in LockAmounts }
     \cup { [call EXCEPT !.op = "channel_ready",
                         !.user_channel_id = UserChannelIds[1],
                         !.channel_id = ChannelIds[1]] }

\* a thread enters an entry point and takes the call's first lock
Begin(t) ==
  /\ threads[t].call.op = "idle"
  /\ \E call \in LockCalls :
       LET step == call_step(call, 0)
       IN /\ step.kind = "acquire"
          /\ can_acquire(step.lock, step.mode)
          /\ lock_owners' = [lock_owners EXCEPT ![step.lock] =
                               @ \cup {[thread |-> t, mode |-> step.mode]}]
          /\ threads' = [threads EXCEPT ![t] =
                           [call |-> call, held |-> << step.lock >>, at |-> 1]]
  /\ UNCHANGED << handlerVars, calc >>

\* read(), write() or lock() returns the guard
Acquire(t) ==
  LET step == call_step(threads[t].call, threads[t].at)
  IN /\ threads[t].call.op # "idle"
     /\ step.kind = "acquire"
     /\ can_acquire(step.lock, step.mode)
     /\ lock_owners' = [lock_owners EXCEPT ![step.lock] =
                          @ \cup {[thread |-> t, mode |-> step.mode]}]
     /\ threads' = [threads EXCEPT ![t].held = Append(@, step.lock),
                                   ![t].at = @ + 1]
     /\ UNCHANGED << handlerVars, calc >>

\* a guard goes out of scope before the call ends
Release(t) ==
  LET step == call_step(threads[t].call, threads[t].at)
  IN /\ threads[t].call.op # "idle"
     /\ step.kind = "release"
     /\ lock_owners' = [lock_owners EXCEPT ![step.lock] =
                          {o \in @ : o.thread # t}]
     /\ threads' = [threads EXCEPT
                      ![t].held = SelectSeq(@, LAMBDA l : l # step.lock),
                      ![t].at = @ + 1]
     /\ UNCHANGED << handlerVars, calc >>

\* the call does its work and returns, dropping its guards
Return(t) ==
  /\ threads[t].call.op # "idle"
  /\ call_step(threads[t].call, threads[t].at).kind = "return"
  /\ call_effect(threads[t].call)
  /\ lock_owners' = [l \in LockNames |->
                       {o \in lock_owners[l] : o.thread # t}]
  /\ threads' = [threads EXCEPT ![t] = IdleThread]
  /\ UNCHANGED calc

NextLock ==
  \E t \in Range(ThreadIds) :
    Begin(t) \/ Acquire(t) \/ Release(t) \/ Return(t)

SpecLock == InitLock /\ [][NextLock]_vars

(* ------------------------------ properties ----------------------------- *)

ChannelAt(counterparty_node_id, intercept_scid) ==
  per_peer_state[counterparty_node_id]
    .outbound_channels_by_intercept_scid[intercept_scid]

FailedIds == {f.intercept_id : f \in Range(failed_htlcs)}
ForwardedIds == {f.intercept_id : f \in Range(forwarded_htlcs)}

\* the calls of forward_intercepted_htlc a step makes
NewForwards ==
  SubSeq(forwarded_htlcs', Len(forwarded_htlcs) + 1, Len(forwarded_htlcs'))

\* what the HTLC of a forward call was intercepted with
ExpectedAmount(call) ==
  intercepted[call.intercept_id].htlc.expected_outbound_amount_msat
HashOf(call) == intercepted[call.intercept_id].htlc.payment_hash

RECURSIVE Deducted(_)
Deducted(calls) ==
  IF calls = << >> THEN 0
  ELSE (ExpectedAmount(Head(calls)) - Head(calls).amount_msat)
         + Deducted(Tail(calls))

\* C1: forward_intercepted_htlc is called only inside channel_ready, for the
\* user_channel_id bound to the SCID the forwarded HTLCs were intercepted
\* on, on a channel that has left PendingInitialPayment: every step that
\* adds a forward call is a channel_ready step whose channel was in
\* PendingChannelOpen and held the forwarded HTLCs in its queue.
C1_ForwardOnlyInChannelReady ==
  [][forwarded_htlcs' # forwarded_htlcs =>
       \E user_channel_id \in Range(UserChannelIds),
          channel_id \in Range(ChannelIds), peer \in Range(Peers) :
         /\ \E fail_at \in 0..MaxHtlcs :
              channel_ready(user_channel_id, channel_id, peer, fail_at)
         /\ lookup_user_channel_id(user_channel_id, peer) = "channel"
         /\ LET scid == per_peer_state[peer]
                          .intercept_scid_by_user_channel_id[user_channel_id]
                channel == ChannelAt(peer, scid)
            IN /\ channel.state.tag = "PendingChannelOpen"
               /\ \A i \in 1..Len(NewForwards) :
                    /\ NewForwards[i].intercept_id
                         \in QueueIds(channel.state.payment_queue)
                    /\ intercepted[NewForwards[i].intercept_id].intercept_scid
                         = scid
                    /\ NewForwards[i].counterparty_node_id = peer
                    /\ NewForwards[i].channel_id = channel_id]_vars

C1_Forwarded == \E f \in Range(forwarded_htlcs) : f.ok

\* C2: no intercepted HTLC is dropped unresolved: each HTLC handed to a
\* channel is still queued in a channel kept under its SCID, or was passed
\* to fail_intercepted_htlc, or was passed to forward_intercepted_htlc.
C2_NoHtlcDropped ==
  \A id \in DOMAIN intercepted :
    \/ \E peer \in DOMAIN per_peer_state :
         /\ intercepted[id].intercept_scid
              \in DOMAIN per_peer_state[peer].outbound_channels_by_intercept_scid
         /\ id \in QueueIds(ChannelAt(peer, intercepted[id].intercept_scid)
                               .state.payment_queue)
    \/ id \in FailedIds
    \/ id \in ForwardedIds

\* C3: an HTLC intercepted while its channel is in PendingChannelOpen is
\* queued, not failed: the call returns Ok, fails nothing, and leaves the
\* channel under its SCID in PendingChannelOpen with the HTLC in its queue.
C3_LateHtlcQueued ==
  [][\A scid \in Range(Scids), id \in 1..MaxHtlcs, amount \in 1..MaxAmount,
        hash \in Range(PaymentHashes), fail_ok \in BOOLEAN :
       (/\ lookup_intercept_scid(scid) = "channel"
        /\ ChannelAt(peer_by_intercept_scid[scid], scid).state.tag
             = "PendingChannelOpen"
        /\ htlc_intercepted(scid, id, amount, hash, fail_ok))
       => /\ returned' = Result(TRUE)
          /\ failed_htlcs' = failed_htlcs
          /\ (lookup_intercept_scid(scid) = "channel")'
          /\ LET channel == ChannelAt(peer_by_intercept_scid[scid], scid)'
             IN /\ channel.state.tag = "PendingChannelOpen"
                /\ id \in QueueIds(channel.state.payment_queue)]_vars

\* C4: a successful channel_ready never over-charges the payer: the amounts
\* forwarded fall short of the amounts intercepted by at most opening_fee_msat
\* in all, only HTLCs of the first group whose sum exceeds the fee are
\* forwarded short, and every other queued HTLC is forwarded at exactly its
\* expected_outbound_amount_msat.
C4_PayerNeverOverCharged ==
  [][\A user_channel_id \in Range(UserChannelIds),
        channel_id \in Range(ChannelIds), peer \in Range(Peers),
        fail_at \in 0..MaxHtlcs :
       (/\ channel_ready(user_channel_id, channel_id, peer, fail_at)
        /\ lookup_user_channel_id(user_channel_id, peer) = "channel"
        /\ returned' = Result(TRUE))
       => LET scid == per_peer_state[peer]
                        .intercept_scid_by_user_channel_id[user_channel_id]
              state == ChannelAt(peer, scid).state
              queue == state.payment_queue
              paying == {i \in 1..Len(queue) :
                           SumAmounts(queue[i].htlcs) > state.opening_fee_msat[1]}
              first == CHOOSE i \in paying : \A j \in paying : i <= j
          IN /\ state.tag = "PendingChannelOpen"
             /\ paying # {}
             /\ {NewForwards[i].intercept_id : i \in 1..Len(NewForwards)}
                  = QueueIds(queue)
             /\ Deducted(NewForwards) <= state.opening_fee_msat[1]
             /\ \A i \in 1..Len(NewForwards) :
                  /\ NewForwards[i].amount_msat <= ExpectedAmount(NewForwards[i])
                  /\ HashOf(NewForwards[i]) # queue[first].payment_hash
                       => NewForwards[i].amount_msat
                            = ExpectedAmount(NewForwards[i])]_vars

\* a channel_ready that forwarded one HTLC short of its amount and another,
\* of another payment, in full
C4_ForwardedShortAndInFull ==
  /\ returned = Result(TRUE)
  /\ \E i, j \in 1..Len(forwarded_htlcs) :
       /\ i < j
       /\ forwarded_htlcs[i].ok /\ forwarded_htlcs[j].ok
       /\ forwarded_htlcs[i].amount_msat < ExpectedAmount(forwarded_htlcs[i])
       /\ HashOf(forwarded_htlcs[j]) # HashOf(forwarded_htlcs[i])
       /\ forwarded_htlcs[j].amount_msat = ExpectedAmount(forwarded_htlcs[j])

RECURSIVE SumForwards(_)
SumForwards(out) ==
  IF out = << >> THEN 0
  ELSE Head(out).amount_to_forward_msat + SumForwards(Tail(out))

\* C5: calculate_amount_to_forward_per_htlc, for a non-empty list with
\* amounts o_i and total_fee <= sum(o_i), returns a list of the same length
\* with the intercept ids in the same order, each amount f_i <= o_i and
\* sum(o_i - f_i) = total_fee exactly; for total_fee > sum(o_i) it returns
\* the empty list.
C5_FeeApportionedExactly ==
  calc.pc = "done" =>
    IF calc.total_fee_msat <= SumAmounts(calc.htlcs)
      THEN /\ Len(calc.out) = Len(calc.htlcs)
           /\ \A i \in 1..Len(calc.htlcs) :
                /\ calc.out[i].intercept_id = calc.htlcs[i].intercept_id
                /\ calc.out[i].amount_to_forward_msat
                     <= calc.htlcs[i].expected_outbound_amount_msat
           /\ SumAmounts(calc.htlcs) - SumForwards(calc.out)
                = calc.total_fee_msat
      ELSE calc.out = << >>

\* the thread is inside a call, at a lock another thread keeps from it
Waiting(t) ==
  LET step == call_step(threads[t].call, threads[t].at)
  IN /\ threads[t].call.op # "idle"
     /\ step.kind = "acquire"
     /\ ~can_acquire(step.lock, step.mode)

\* the threads that hold the lock the thread waits for
Blockers(t) ==
  {o.thread : o \in lock_owners[call_step(threads[t].call, threads[t].at).lock]}

\* C6: the entry points take their locks in one order (reverse index, then
\* per_peer_state, then the peer's mutex), so no interleaving of concurrent
\* calls deadlocks: there is never a set of threads each waiting for a lock
\* that only threads of the set hold.
C6_NoDeadlock ==
  \A waiting \in SUBSET Range(ThreadIds) :
    waiting # {} =>
      \E t \in waiting : ~Waiting(t) \/ ~(Blockers(t) \subseteq waiting)

\* C7: cross-map invariant: every SCID that is a key of
\* peer_by_intercept_scid has a channel stored under that SCID in
\* outbound_channels_by_intercept_scid of the peer the entry names.
C7_ScidIndexHasChannel ==
  \A scid \in DOMAIN peer_by_intercept_scid :
    /\ peer_by_intercept_scid[scid] \in DOMAIN per_peer_state
    /\ scid \in DOMAIN per_peer_state[peer_by_intercept_scid[scid]]
                         .outbound_channels_by_intercept_scid

\* C8: whenever the state machine returns an error from htlc_intercepted
\* for a registered SCID, the handler (a) calls fail_intercepted_htlc once,
\* for that intercept_id, (b) removes the channel of that SCID from the peer
\* state, and (c) returns an error.
C8_StateErrorFailsAndDrops ==
  [][\A scid \in Range(Scids), id \in 1..MaxHtlcs, amount \in 1..MaxAmount,
        hash \in Range(PaymentHashes), fail_ok \in BOOLEAN :
       (/\ lookup_intercept_scid(scid) = "channel"
        /\ ~Channel_htlc_intercepted(
              ChannelAt(peer_by_intercept_scid[scid], scid),
              [intercept_id |-> id, expected_outbound_amount_msat |-> amount,
               payment_hash |-> hash]).ok
        /\ htlc_intercepted(scid, id, amount, hash, fail_ok))
       => /\ Len(failed_htlcs') = Len(failed_htlcs) + 1
          /\ failed_htlcs'[Len(failed_htlcs')].intercept_id = id
          /\ scid \notin DOMAIN per_peer_state'[peer_by_intercept_scid[scid]]
                                   .outbound_channels_by_intercept_scid
          /\ returned' = Result(FALSE)]_vars

\* C9: a buy with a payment size below min_payment_size_msat is answered
\* with 202, above max_payment_size_msat with 203, on fee overflow with 203,
\* on a fee >= the size with 202, whatever its promise; a buy that passes the
\* size checks or has no size, with an invalid or expired promise, is
\* answered with 201; a rejected buy enqueues exactly that one response and
\* records nothing, an accepted buy enqueues no response.
C9_BuyValidationOrder ==
  [][\A message \in Messages(Range(RequestIds)), peer \in Range(Peers) :
       (message.kind = "Buy" /\ handle_message(message, peer))
       => LET size == message.params.payment_size_msat
              fee_params == message.params.opening_fee_params
              fee == compute_opening_fee(size[1], fee_params.min_fee_msat,
                                         fee_params.proportional)
              too_small == size # None
                             /\ size[1] < fee_params.min_payment_size_msat
              too_large == size # None
                             /\ size[1] > fee_params.max_payment_size_msat
              in_bounds == size # None /\ ~too_small /\ ~too_large
              overflow == in_bounds /\ fee = None
              fee_too_big == in_bounds /\ fee # None /\ fee[1] >= size[1]
              size_ok == size = None
                           \/ (in_bounds /\ fee # None /\ fee[1] < size[1])
              promise_ok == fee_params.promise = "lsp_secret"
                              /\ fee_params.valid_until = "future"
              Answered(code) ==
                /\ pending_messages' =
                     Append(pending_messages,
                            [counterparty_node_id |-> peer,
                             request_id |-> message.request_id,
                             response |-> [kind |-> "BuyError", code |-> code]])
                /\ UNCHANGED << per_peer_state, pending_events >>
          IN /\ too_small => Answered(202)
             /\ too_large => Answered(203)
             /\ overflow => Answered(203)
             /\ fee_too_big => Answered(202)
             /\ (size_ok /\ ~promise_ok) => Answered(201)
             /\ (size_ok /\ promise_ok)
                  => pending_messages' = pending_messages]_vars

\* two buys were rejected, one for its size and one for its promise
C9_RejectedForSizeAndForPromise ==
  /\ \E m \in Range(pending_messages) :
       m.response.kind = "BuyError" /\ m.response.code = 203
  /\ \E m \in Range(pending_messages) :
       m.response.kind = "BuyError" /\ m.response.code = 201

StoredChannels ==
  UNION {{ChannelAt(peer, scid) :
            scid \in DOMAIN per_peer_state[peer]
                              .outbound_channels_by_intercept_scid} :
           peer \in DOMAIN per_peer_state}

\* C12: the state machine's channel_ready, called on a channel in any state
\* other than PendingChannelOpen (PendingInitialPayment,
\* PendingPaymentForward, PaymentForwarded), returns an error and leaves the
\* channel's state and payment queue as they were; a handler channel_ready
\* step on such a channel returns an error and stores the channel unchanged.
C12_ChannelReadyElsewhereErrs ==
  [][\A user_channel_id \in Range(UserChannelIds),
        channel_id \in Range(ChannelIds), peer \in Range(Peers),
        fail_at \in 0..MaxHtlcs :
       (/\ lookup_user_channel_id(user_channel_id, peer) = "channel"
        /\ ChannelAt(peer, per_peer_state[peer]
                             .intercept_scid_by_user_channel_id[user_channel_id])
             .state.tag # "PendingChannelOpen"
        /\ channel_ready(user_channel_id, channel_id, peer, fail_at))
       => LET scid == per_peer_state[peer]
                        .intercept_scid_by_user_channel_id[user_channel_id]
              channel == ChannelAt(peer, scid)
          IN /\ ~State_channel_ready(channel.state).ok
             /\ State_channel_ready(channel.state).state = channel.state
             /\ Channel_channel_ready(channel).channel = channel
             /\ returned' = Result(FALSE)
             /\ ChannelAt(peer, scid)' = channel
             /\ forwarded_htlcs' = forwarded_htlcs]_vars

\* the one channel there ever was has been bound to a channel id by a
\* channel_ready that found it in PendingInitialPayment, no HTLC intercepted
C12_ReadyRefusedBeforePayment ==
  /\ returned = Result(FALSE)
  /\ n_requests = 1
  /\ intercepted = EmptyMap
  /\ failed_htlcs = << >>
  /\ \E peer \in DOMAIN per_peer_state :
       per_peer_state[peer].intercept_scid_by_channel_id # EmptyMap
  /\ \E channel \in StoredChannels :
       channel.state.tag = "PendingInitialPayment"

\* C13: htlc_intercepted for an SCID that is not a key of
\* peer_by_intercept_scid (one that invoice_parameters_generated has not
\* registered yet included) returns success and changes nothing: no event
\* and no message is enqueued, fail_intercepted_htlc and
\* forward_intercepted_htlc are not called, and no peer state or registry
\* changes.
C13_UnknownScidIgnored ==
  [][\A scid \in Range(Scids), id \in 1..MaxHtlcs, amount \in 1..MaxAmount,
        hash \in Range(PaymentHashes), fail_ok \in BOOLEAN :
       (/\ scid \notin DOMAIN peer_by_intercept_scid
        /\ htlc_intercepted(scid, id, amount, hash, fail_ok))
       => /\ returned' = Result(TRUE)
          /\ UNCHANGED << per_peer_state, peer_by_intercept_scid,
                          peer_by_channel_id, pending_messages, pending_events,
                          failed_htlcs, forwarded_htlcs, intercepted >>]_vars

\* an accepted buy waits for invoice_parameters_generated, no SCID is
\* registered, and the last call (an HTLC on the SCID the buy will be given
\* among them) returned Ok and left no trace
C13_NothingRegisteredYet ==
  /\ returned = Result(TRUE)
  /\ peer_by_intercept_scid = EmptyMap
  /\ failed_htlcs = << >>
  /\ intercepted = EmptyMap
  /\ \E peer \in DOMAIN per_peer_state :
       \E request_id \in DOMAIN per_peer_state[peer].pending_requests :
         per_peer_state[peer].pending_requests[request_id].kind = "Buy"

\* the peer's pending request under the id is a Buy
PendingBuy(peer, request_id) ==
  /\ peer \in DOMAIN per_peer_state
  /\ request_id \in DOMAIN per_peer_state[peer].pending_requests
  /\ per_peer_state[peer].pending_requests[request_id].kind = "Buy"

\* C14: a buy request that passes validation enqueues exactly one BuyRequest
\* event and is recorded in the peer's pending_requests under its
\* request_id, and a recorded buy stays there, as it was, under every other
\* operation (a request the peer sends under the same id aside) until
\* invoice_parameters_generated is called for its peer and request_id.
C14_BuyPendingUntilAnswered ==
  [][/\ \A message \in Messages(Range(RequestIds)), peer \in Range(Peers) :
          (/\ message.kind = "Buy"
           /\ buy_rejection(message.params) = None
           /\ handle_message(message, peer))
          => /\ pending_events' =
                  Append(pending_events,
                         [type |-> "BuyRequest",
                          request_id |-> message.request_id,
                          counterparty_node_id |-> peer,
                          opening_fee_params |->
                            message.params.opening_fee_params,
                          payment_size_msat |->
                            message.params.payment_size_msat])
             /\ PendingBuy(peer, message.request_id)'
             /\ per_peer_state'[peer].pending_requests[message.request_id].buy
                  = Some(message.params)
     /\ \A peer \in Range(Peers), request_id \in Range(RequestIds) :
          PendingBuy(peer, request_id) =>
            \/ \E scid \in Range(Scids), user_channel_id \in Range(UserChannelIds) :
                 invoice_parameters_generated(peer, request_id, scid,
                                              user_channel_id)
            \/ \E message \in Messages({request_id}) :
                 handle_message(message, peer)
            \/ /\ PendingBuy(peer, request_id)'
               /\ per_peer_state'[peer].pending_requests[request_id]
                    = per_peer_state[peer].pending_requests[request_id]]_vars

\* C15: invoice_parameters_generated for a pending Buy succeeds, removes the
\* pending request, sets peer_by_intercept_scid[scid] to the peer, installs
\* under scid an OutboundJITChannel in PendingInitialPayment with an empty
\* queue that carries the buy's opening_fee_params and payment_size_msat and
\* the given user_channel_id, sets intercept_scid_by_user_channel_id
\* [user_channel_id] to scid, enqueues exactly one BuyResponse, and changes
\* nothing else.
C15_InvoiceParametersRegister ==
  [][\A peer \in Range(Peers), request_id \in Range(RequestIds),
        scid \in Range(Scids), user_channel_id \in Range(UserChannelIds) :
       (/\ PendingBuy(peer, request_id)
        /\ invoice_parameters_generated(peer, request_id, scid, user_channel_id))
       => LET buy ==
                per_peer_state[peer].pending_requests[request_id].buy[1]
              before == per_peer_state[peer]
              after == per_peer_state'[peer]
          IN /\ returned' = Result(TRUE)
             /\ after.pending_requests =
                  Remove(before.pending_requests, request_id)
             /\ peer_by_intercept_scid' =
                  Insert(peer_by_intercept_scid, scid, peer)
             /\ after.outbound_channels_by_intercept_scid =
                  Insert(before.outbound_channels_by_intercept_scid, scid,
                         [state |-> [tag |-> "PendingInitialPayment",
                                     payment_queue |-> << >>,
                                     opening_fee_msat |-> None],
                          user_channel_id |-> user_channel_id,
                          opening_fee_params |-> buy.opening_fee_params,
                          payment_size_msat |-> buy.payment_size_msat])
             /\ after.intercept_scid_by_user_channel_id =
                  Insert(before.intercept_scid_by_user_channel_id,
                         user_channel_id, scid)
             /\ after.intercept_scid_by_channel_id =
                  before.intercept_scid_by_channel_id
             /\ pending_messages' =
                  Append(pending_messages,
                         [counterparty_node_id |-> peer,
                          request_id |-> request_id,
                          response |-> [kind |-> "Buy",
                                        intercept_scid |-> scid]])
             /\ UNCHANGED << peer_by_channel_id, pending_events, failed_htlcs,
                             forwarded_htlcs >>]_vars

\* two buys, one with a payment size and one without, were each answered
\* with a BuyResponse and have their channels registered
C15_TwoChannelsRegistered ==
  /\ Cardinality({m \in Range(pending_messages) : m.response.kind = "Buy"}) = 2
  /\ Cardinality(DOMAIN peer_by_intercept_scid) = 2
  /\ \E a, b \in StoredChannels :
       /\ a.payment_size_msat = None /\ b.payment_size_msat # None
       /\ a.state = OutboundJITChannelState_new
       /\ b.state = OutboundJITChannelState_new
       /\ a.user_channel_id # b.user_channel_id

\* the channel the peer holds under the SCID has an opening fee
HasFee(peer, scid) ==
  /\ peer \in DOMAIN per_peer_state
  /\ scid \in DOMAIN per_peer_state[peer].outbound_channels_by_intercept_scid
  /\ ChannelAt(peer, scid).state.tag
       \in {"PendingChannelOpen", "PendingPaymentForward"}

\* the opening_fee_msat of the last OpenChannel event for the SCID
OpenChannelFee(scid) ==
  LET opens == {i \in 1..Len(pending_events) :
                  /\ pending_events[i].type = "OpenChannel"
                  /\ pending_events[i].intercept_scid = scid}
  IN IF opens = {} THEN None
     ELSE Some(pending_events[CHOOSE i \in opens : \A j \in opens : j <= i]
                 .opening_fee_msat)

\* C16: opening_fee_msat is fixed once, when the channel leaves
\* PendingInitialPayment: the value a channel holds in PendingChannelOpen
\* and in PendingPaymentForward is the value of the OpenChannel event of its
\* SCID, no step changes it, and the FeePayment that channel_ready hands to
\* the apportionment carries that same value: the fee-paying group is
\* forwarded at the amounts computed from the event's opening_fee_msat.
C16_OpeningFeeFixedOnce ==
  [][/\ \A peer \in Range(Peers), scid \in Range(Scids) :
          HasFee(peer, scid)' =>
            /\ ChannelAt(peer, scid)'.state.opening_fee_msat
                 = OpenChannelFee(scid)'
            /\ HasFee(peer, scid) =>
                 ChannelAt(peer, scid)'.state.opening_fee_msat
                   = ChannelAt(peer, scid).state.opening_fee_msat
     /\ \A user_channel_id \in Range(UserChannelIds),
           channel_id \in Range(ChannelIds), peer \in Range(Peers),
           fail_at \in 0..MaxHtlcs :
          (/\ lookup_user_channel_id(user_channel_id, peer) = "channel"
           /\ forwarded_htlcs' # forwarded_htlcs
           /\ channel_ready(user_channel_id, channel_id, peer, fail_at))
          => LET scid == per_peer_state[peer]
                           .intercept_scid_by_user_channel_id[user_channel_id]
                 state == ChannelAt(peer, scid).state
                 fee == OpenChannelFee(scid)
                 paying == pop_greater_than_msat(state.payment_queue, fee[1])
                 amounts ==
                   calculate_amount_to_forward_per_htlc(paying.htlcs, fee[1])
             IN /\ fee # None
                /\ paying.found
                /\ State_channel_ready(state).fee_payment
                     = [htlcs |-> paying.htlcs, opening_fee_msat |-> fee[1]]
                /\ \A i \in 1..Len(amounts) :
                     i <= Len(NewForwards) =>
                       /\ NewForwards[i].intercept_id = amounts[i].intercept_id
                       /\ NewForwards[i].amount_msat
                            = amounts[i].amount_to_forward_msat]_vars

\* a channel in PendingPaymentForward holds the fee of its OpenChannel
\* event, which is what its first HTLC was forwarded short of
C16_FeeCarriedToForward ==
  \E peer \in DOMAIN per_peer_state :
    \E scid \in DOMAIN per_peer_state[peer].outbound_channels_by_intercept_scid :
      /\ ChannelAt(peer, scid).state.tag = "PendingPaymentForward"
      /\ ChannelAt(peer, scid).state.opening_fee_msat = OpenChannelFee(scid)
      /\ Len(forwarded_htlcs) = 1
      /\ forwarded_htlcs[1].amount_msat
           = ExpectedAmount(forwarded_htlcs[1]) - OpenChannelFee(scid)[1]
      /\ OpenChannelFee(scid)[1] > 0

\* C17: fee apportionment is fair: for a non-empty list and a total_fee with
\* 0 < total_fee <= sum(o_i), the fee share o_i - f_i of each HTLC is within
\* 5% of its fair share total_fee * o_i / sum(o_j), small amounts included.
\* The tolerance is taken at its widest, 5% of the whole amount received:
\* |share_i - fair_i| <= sum(o_j) / 20, in integers after multiplying by
\* 20 * sum(o_j).
C17_FeeSharesFair ==
  LET total == SumAmounts(calc.htlcs)
      fee_share(i) == calc.htlcs[i].expected_outbound_amount_msat
                        - calc.out[i].amount_to_forward_msat
      off(i) == fee_share(i) * total
                  - calc.total_fee_msat
                      * calc.htlcs[i].expected_outbound_amount_msat
  IN (/\ calc.pc = "done"
      /\ calc.total_fee_msat > 0
      /\ calc.total_fee_msat <= total)
     => \A i \in 1..Len(calc.htlcs) :
          /\ 20 * off(i) <= total * total
          /\ 20 * (0 - off(i)) <= total * total

\* C18: whenever a channel is in PendingChannelOpen, its queue holds a
\* payment-hash group whose summed amount strictly exceeds opening_fee_msat,
\* so that a channel_ready delivered for it, every forward succeeding,
\* returns Ok and leaves the channel in PaymentForwarded; whatever HTLCs,
\* of one payment hash or of several, triggered the open.
C18_OpenChannelCanBePaid ==
  \A peer \in DOMAIN per_peer_state :
    \A scid \in DOMAIN per_peer_state[peer].outbound_channels_by_intercept_scid :
      LET channel == ChannelAt(peer, scid)
          done == forward_payment(channel, ChannelIds[1], peer, 0)
      IN channel.state.tag = "PendingChannelOpen" =>
           /\ \E i \in 1..Len(channel.state.payment_queue) :
                SumAmounts(channel.state.payment_queue[i].htlcs)
                  > channel.state.opening_fee_msat[1]
           /\ done.ok
           /\ done.channel.state.tag = "PaymentForwarded"

\* C19: the handler's channel_ready is all-or-nothing for the channel: when
\* it returns an error, for whatever reason (forward_intercepted_htlc
\* returning an error for one of the HTLCs included), the channel's state
\* and payment queue are what they were before the call, so that no HTLC
\* popped from the queue is left neither forwarded nor queued.
C19_ChannelReadyAllOrNothing ==
  [][\A user_channel_id \in Range(UserChannelIds),
        channel_id \in Range(ChannelIds), peer \in Range(Peers),
        fail_at \in 0..MaxHtlcs :
       (/\ lookup_user_channel_id(user_channel_id, peer) = "channel"
        /\ channel_ready(user_channel_id, channel_id, peer, fail_at)
        /\ returned' = Result(FALSE))
       => LET scid == per_peer_state[peer]
                        .intercept_scid_by_user_channel_id[user_channel_id]
          IN /\ ChannelAt(peer, scid)'.state = ChannelAt(peer, scid).state
             /\ \A id \in QueueIds(ChannelAt(peer, scid).state.payment_queue) :
                  \/ id \in QueueIds(ChannelAt(peer, scid)'.state.payment_queue)
                  \/ \E f \in Range(forwarded_htlcs') :
                       f.intercept_id = id /\ f.ok]_vars

NewOpenChannel ==
  IF /\ Len(pending_events') = Len(pending_events) + 1
     /\ pending_events'[Len(pending_events')].type = "OpenChannel"
    THEN Some(pending_events'[Len(pending_events')])
    ELSE None

\* the step answers a buy with the SCID: invoice_parameters_generated
\* installed a channel under it
Registers(scid) ==
  /\ Len(pending_messages') = Len(pending_messages) + 1
  /\ pending_messages'[Len(pending_messages')].response
       = [kind |-> "Buy", intercept_scid |-> scid]

\* C21: each OutboundJITChannel that one invoice_parameters_generated call
\* registered emits at most one OpenChannel event, however concurrent
\* htlc_intercepted calls for its SCID interleave: an OpenChannel event is
\* enqueued only by a step that takes the channel of its SCID from
\* PendingInitialPayment to PendingChannelOpen, and a channel that has left
\* PendingInitialPayment is found there again only after a new
\* registration of its SCID; the event's amt_to_forward_msat is > 0 and
\* amt_to_forward_msat + opening_fee_msat is the expected payment size
\* (payment_size_msat in MPP mode, the amount of the single HTLC otherwise).
C21_OneOpenChannelPerChannel ==
  [][/\ Len(pending_events') >= Len(pending_events)
     /\ SubSeq(pending_events', 1, Len(pending_events)) = pending_events
     /\ NewOpenChannel # None =>
          \E peer \in Range(Peers), scid \in Range(Scids) :
            /\ NewOpenChannel[1].their_network_key = peer
            /\ NewOpenChannel[1].intercept_scid = scid
            /\ lookup_intercept_scid(scid) = "channel"
            /\ peer_by_intercept_scid[scid] = peer
            /\ ChannelAt(peer, scid).state.tag = "PendingInitialPayment"
            /\ (lookup_intercept_scid(scid) = "channel")'
            /\ ChannelAt(peer, scid)'.state.tag = "PendingChannelOpen"
            /\ ChannelAt(peer, scid)'.user_channel_id
                 = NewOpenChannel[1].user_channel_id
            /\ NewOpenChannel[1].amt_to_forward_msat > 0
            /\ NewOpenChannel[1].amt_to_forward_msat
                 + NewOpenChannel[1].opening_fee_msat
                 = IF ChannelAt(peer, scid).payment_size_msat # None
                     THEN ChannelAt(peer, scid).payment_size_msat[1]
                     ELSE QueueTotal(ChannelAt(peer, scid)'.state.payment_queue)
            /\ ChannelAt(peer, scid).payment_size_msat = None
                 => /\ ChannelAt(peer, scid).state.payment_queue = << >>
                    /\ QueueCount(ChannelAt(peer, scid)'.state.payment_queue)
                         = 1
     /\ \A peer \in Range(Peers), scid \in Range(Scids) :
          (/\ peer \in DOMAIN per_peer_state
           /\ scid \in DOMAIN per_peer_state[peer]
                                .outbound_channels_by_intercept_scid
           /\ ChannelAt(peer, scid).state.tag # "PendingInitialPayment"
           /\ scid \in DOMAIN per_peer_state'[peer]
                                .outbound_channels_by_intercept_scid
           /\ ChannelAt(peer, scid)'.state.tag = "PendingInitialPayment")
          => Registers(scid)]_vars

\* a thread is still inside htlc_intercepted with the first HTLC while the
\* second HTLC, intercepted by the other thread, has opened the channel
C21_OpenedWhileOtherCallRuns ==
  /\ Cardinality({i \in 1..Len(pending_events) :
                    pending_events[i].type = "OpenChannel"}) = 1
  /\ \E channel \in StoredChannels :
       /\ channel.state.tag = "PendingChannelOpen"
       /\ QueueIds(channel.state.payment_queue) = {2}
  /\ \E t \in Range(ThreadIds) :
       /\ threads[t].call.op = "htlc_intercepted"
       /\ threads[t].call.intercept_id = 1
       /\ threads[t].at >= 1

\* C22: an operator call that returns an API-misuse error leaves
\* pending_requests unchanged: invalid_token_provided or
\* opening_fee_params_generated called with the request_id of a pending Buy,
\* and invoice_parameters_generated called with the request_id of a pending
\* GetInfo, return an error, enqueue no message, and the pending request is
\* still there afterwards.
C22_MisuseKeepsPendingRequest ==
  [][\A peer \in Range(Peers), request_id \in Range(RequestIds) :
       (/\ pending_kind(peer, request_id) \in {"Buy", "GetInfo"}
        /\ \/ /\ pending_kind(peer, request_id) = "Buy"
              /\ \/ invalid_token_provided(peer, request_id)
                 \/ opening_fee_params_generated(peer, request_id, RawMenu)
           \/ /\ pending_kind(peer, request_id) = "GetInfo"
              /\ \E scid \in Range(Scids),
                    user_channel_id \in Range(UserChannelIds) :
                   invoice_parameters_generated(peer, request_id, scid,
                                                user_channel_id))
       => /\ returned' = Result(FALSE)
          /\ pending_messages' = pending_messages
          /\ per_peer_state'[peer].pending_requests
               = per_peer_state[peer].pending_requests]_vars

\* C23: a registered channel is never replaced or orphaned by a later
\* registration: after invoice_parameters_generated, whatever intercept_scid
\* and user_channel_id it is given, every OutboundJITChannel that was
\* installed under an SCID is still the one stored under that SCID, with
\* its queued HTLCs, peer_by_intercept_scid[scid] still names its peer, and
\* its user_channel_id still leads to its SCID.
C23_RegistrationKeepsChannels ==
  [][\A peer \in Range(Peers), request_id \in Range(RequestIds),
        scid \in Range(Scids), user_channel_id \in Range(UserChannelIds) :
       (/\ PendingBuy(peer, request_id)
        /\ invoice_parameters_generated(peer, request_id, scid, user_channel_id))
       => \A owner \in DOMAIN per_peer_state :
            \A old \in DOMAIN per_peer_state[owner]
                                .outbound_channels_by_intercept_scid :
              LET channel == ChannelAt(owner, old)
                  by_user_channel_id ==
                    per_peer_state[owner].intercept_scid_by_user_channel_id
              IN /\ old \in DOMAIN per_peer_state'[owner]
                                     .outbound_channels_by_intercept_scid
                 /\ ChannelAt(owner, old)' = channel
                 /\ old \in DOMAIN peer_by_intercept_scid
                      => peer_by_intercept_scid'[old]
                           = peer_by_intercept_scid[old]
                 /\ (/\ channel.user_channel_id \in DOMAIN by_user_channel_id
                     /\ by_user_channel_id[channel.user_channel_id] = old)
                      => per_peer_state'[owner]
                           .intercept_scid_by_user_channel_id[
                              channel.user_channel_id] = old]_vars

\* the place of a variant in the order of the channel's life
StateRank(tag) ==
  CASE tag = "PendingInitialPayment" -> 1
    [] tag = "PendingChannelOpen" -> 2
    [] tag = "PendingPaymentForward" -> 3
    [] tag = "PaymentForwarded" -> 4

\* C24: a channel's state only moves forward along PendingInitialPayment ->
\* PendingChannelOpen -> PendingPaymentForward -> PaymentForwarded: no step
\* leaves the channel of an SCID in an earlier state than it found it in
\* (a step that registers the SCID installs a new channel), a channel in
\* PaymentForwarded stays as it is, and a channel_ready whose forwards all
\* succeed takes the channel through payment_forwarded to PaymentForwarded
\* with an empty queue, every HTLC that was left in the queue after the
\* fee-paying group forwarded in full, in queue order.
C24_StateMovesForward ==
  [][/\ \A peer \in Range(Peers), scid \in Range(Scids) :
          (/\ peer \in DOMAIN per_peer_state
           /\ scid \in DOMAIN per_peer_state[peer]
                                .outbound_channels_by_intercept_scid
           /\ scid \in DOMAIN per_peer_state'[peer]
                                .outbound_channels_by_intercept_scid
           /\ ~Registers(scid))
          => /\ StateRank(ChannelAt(peer, scid)'.state.tag)
                  >= StateRank(ChannelAt(peer, scid).state.tag)
             /\ ChannelAt(peer, scid).state.tag = "PaymentForwarded"
                  => ChannelAt(peer, scid)' = ChannelAt(peer, scid)
     /\ \A user_channel_id \in Range(UserChannelIds),
           channel_id \in Range(ChannelIds), peer \in Range(Peers) :
          (/\ lookup_user_channel_id(user_channel_id, peer) = "channel"
           /\ Channel_channel_ready(
                ChannelAt(peer, per_peer_state[peer]
                    .intercept_scid_by_user_channel_id[user_channel_id])).ok
           /\ channel_ready(user_channel_id, channel_id, peer, 0))
          => LET scid == per_peer_state[peer]
                           .intercept_scid_by_user_channel_id[user_channel_id]
                 ready == Channel_channel_ready(ChannelAt(peer, scid))
                 paying == Len(ready.fee_payment.htlcs)
                 left == clear(ready.channel.state.payment_queue)
             IN /\ ready.channel.state.tag = "PendingPaymentForward"
                /\ returned' = Result(TRUE)
                /\ ChannelAt(peer, scid)'.state.tag = "PaymentForwarded"
                /\ ChannelAt(peer, scid)'.state.payment_queue = << >>
                /\ Len(NewForwards) = paying + Len(left)
                /\ \A i \in 1..Len(left) :
                     /\ NewForwards[paying + i].intercept_id
                          = left[i].intercept_id
                     /\ NewForwards[paying + i].amount_msat
                          = left[i].expected_outbound_amount_msat]_vars

\* a channel went all the way to PaymentForwarded, and payment_forwarded
\* returned an HTLC of another payment that was left in the queue
C24_ReachedPaymentForwarded ==
  /\ \E channel \in StoredChannels :
       /\ channel.state.tag = "PaymentForwarded"
       /\ channel.state.payment_queue = << >>
  /\ Len(forwarded_htlcs) = 2
  /\ \A i \in 1..2 : forwarded_htlcs[i].ok
  /\ HashOf(forwarded_htlcs[1]) # HashOf(forwarded_htlcs[2])
  /\ forwarded_htlcs[2].amount_msat = ExpectedAmount(forwarded_htlcs[2])

\* C25: when htlc_intercepted drops a channel on a state-machine error, the
\* reverse-index entry peer_by_intercept_scid[scid] stays, as every entry of
\* the index does; and htlc_intercepted for an SCID that has its index
\* entry and its peer but no channel returns success and does nothing: the
\* HTLC is neither failed nor forwarded nor queued, and no event is
\* enqueued.
C25_DroppedScidIgnoresHtlcs ==
  [][/\ \A scid \in DOMAIN peer_by_intercept_scid :
          /\ scid \in DOMAIN peer_by_intercept_scid'
          /\ (/\ lookup_intercept_scid(scid) = "channel"
              /\ scid \notin DOMAIN per_peer_state'[peer_by_intercept_scid[scid]]
                                       .outbound_channels_by_intercept_scid)
               => /\ peer_by_intercept_scid'[scid] = peer_by_intercept_scid[scid]
                  /\ (lookup_intercept_scid(scid) = "no channel")'
     /\ \A scid \in Range(Scids), id \in 1..MaxHtlcs, amount \in 1..MaxAmount,
           hash \in Range(PaymentHashes), fail_ok \in BOOLEAN :
          (/\ lookup_intercept_scid(scid) = "no channel"
           /\ htlc_intercepted(scid, id, amount, hash, fail_ok))
          => /\ returned' = Result(TRUE)
             /\ UNCHANGED << per_peer_state, peer_by_intercept_scid,
                             peer_by_channel_id, pending_messages,
                             pending_events, failed_htlcs, forwarded_htlcs,
                             intercepted >>]_vars

\* the one channel there was has been dropped with its HTLC failed, its
\* SCID is still in the index, and the call after that returned Ok
C25_HtlcAfterDrop ==
  /\ returned = Result(TRUE)
  /\ n_requests = 1
  /\ Len(failed_htlcs) = 1
  /\ DOMAIN intercepted = {1}
  /\ \E scid \in DOMAIN peer_by_intercept_scid :
       lookup_intercept_scid(scid) = "no channel"

\* channel_ready hands calculate_amount_to_forward_per_htlc a fee that the
\* popped group covers, and gets one amount back for each popped HTLC.
FeeCoveredByPoppedGroup ==
  \A user_channel_id \in Range(UserChannelIds),
      channel_id \in Range(ChannelIds), peer \in Range(Peers),
      fail_at \in 0..MaxHtlcs :
     (/\ lookup_user_channel_id(user_channel_id, peer) = "channel"
      /\ Channel_channel_ready(
           ChannelAt(peer, per_peer_state[peer]
               .intercept_scid_by_user_channel_id[user_channel_id])).ok
      /\ channel_ready(user_channel_id, channel_id, peer, fail_at))
     => LET fee_payment ==
              Channel_channel_ready(
                ChannelAt(peer, per_peer_state[peer]
                  .intercept_scid_by_user_channel_id[user_channel_id]))
                .fee_payment
        IN /\ fee_payment.opening_fee_msat <= SumAmounts(fee_payment.htlcs)
           /\ Len(calculate_amount_to_forward_per_htlc(
                    fee_payment.htlcs, fee_payment.opening_fee_msat))
                = Len(fee_payment.htlcs)
           /\ fee_payment.htlcs # << >>

\* A no-MPP channel awaiting its payment sees one HTLC after add_htlc.
NoMppQueuesOneHtlc ==
  \A scid \in Range(Scids), id \in 1..MaxHtlcs, amount \in 1..MaxAmount,
      hash \in Range(PaymentHashes), fail_ok \in BOOLEAN :
     (/\ lookup_intercept_scid(scid) = "channel"
      /\ ChannelAt(peer_by_intercept_scid[scid], scid).payment_size_msat
           = None
      /\ ChannelAt(peer_by_intercept_scid[scid], scid).state.tag
           = "PendingInitialPayment"
      /\ htlc_intercepted(scid, id, amount, hash, fail_ok))
     => add_htlc(ChannelAt(peer_by_intercept_scid[scid], scid)
                   .state.payment_queue,
                 [intercept_id |-> id,
                  expected_outbound_amount_msat |-> amount,
                  payment_hash |-> hash]).num = 1

\* C26: the debug assertions of the module hold in every call: channel_ready
\* never hands calculate_amount_to_forward_per_htlc a total_fee_msat above
\* the sum of the popped group (the list it returns has one entry for each
\* popped HTLC), and in no-MPP mode the state machine never sees
\* num_htlcs # 1 after add_htlc, a preceding htlc_intercepted whose
\* fail_intercepted_htlc call returned an error included.
C26_DebugAssertionsHold ==
  [][FeeCoveredByPoppedGroup /\ NoMppQueuesOneHtlc]_vars

\* the peer has been answered with a BuyError
Rejected(peer) ==
  \E i \in DOMAIN pending_messages :
    /\ pending_messages[i].counterparty_node_id = peer
    /\ pending_messages[i].response.kind = "BuyError"

\* C27: a buy request answered with 201, 202 or 203 changes nothing the
\* handler keeps: no PeerState is created for the peer, pending_requests
\* gains nothing, no BuyRequest event is emitted, the one effect being the
\* BuyError response; and a peer that has been rejected has its next get_info
\* or valid buy request recorded and announced like any other.
C27_RejectedBuyChangesNothing ==
  [][n_requests' # n_requests =>
     \A peer \in Range(Peers), message \in Messages(Range(RequestIds)) :
       /\ (/\ message.kind = "Buy"
           /\ buy_rejection(message.params) # None
           /\ handle_message(message, peer))
          => /\ UNCHANGED << per_peer_state, pending_events,
                             peer_by_intercept_scid, peer_by_channel_id >>
             /\ returned' = Result(FALSE)
             /\ pending_messages' =
                  Append(pending_messages,
                         [counterparty_node_id |-> peer,
                          request_id |-> message.request_id,
                          response |->
                            [kind |-> "BuyError",
                             code |-> buy_rejection(message.params)[1]]])
             /\ buy_rejection(message.params)[1] \in
                  {LSPS2_BUY_REQUEST_INVALID_OPENING_FEE_PARAMS_ERROR_CODE,
                   LSPS2_BUY_REQUEST_PAYMENT_SIZE_TOO_SMALL_ERROR_CODE,
                   LSPS2_BUY_REQUEST_PAYMENT_SIZE_TOO_LARGE_ERROR_CODE}
       /\ (/\ Rejected(peer)
           /\ \/ message.kind = "GetInfo"
              \/ message.kind = "Buy" /\ buy_rejection(message.params) = None
           /\ handle_message(message, peer))
          => /\ returned' = Result(TRUE)
             /\ peer \in DOMAIN per_peer_state'
             /\ message.request_id
                  \in DOMAIN per_peer_state'[peer].pending_requests
             /\ per_peer_state'[peer].pending_requests[message.request_id].kind
                  = message.kind
             /\ Len(pending_events') = Len(pending_events) + 1
             /\ pending_events'[Len(pending_events')].request_id
                  = message.request_id
             /\ pending_events'[Len(pending_events')].counterparty_node_id
                  = peer
             /\ UNCHANGED pending_messages]_vars

\* the peer's first buy request was rejected and left it without a
\* PeerState; its second, under the next request id, is the one request
\* recorded for it
C27_AcceptedAfterRejection ==
  /\ n_requests = 2
  /\ returned = Result(TRUE)
  /\ Len(pending_messages) = 1
  /\ pending_messages[1].response.kind = "BuyError"
  /\ pending_messages[1].request_id = RequestIds[1]
  /\ pending_messages[1].counterparty_node_id = Peers[1]
  /\ Peers[1] \in DOMAIN per_peer_state
  /\ DOMAIN per_peer_state[Peers[1]].pending_requests = {RequestIds[2]}
  /\ PendingBuy(Peers[1], RequestIds[2])
  /\ Len(pending_events) = 1

====
